---- MODULE Spec2Model ----
(***************************************************************************)
(* aadc: correction of misaligned right-hand borders in ASCII / Unicode    *)
(* box diagrams (src/src/main.rs).                                         *)
(*                                                                         *)
(* A character is its Unicode code point, a line is a sequence of code     *)
(* points, a document is a sequence of lines.  Line indexes and block      *)
(* bounds are 0-based as in the source (line i is lines[i + 1] here).      *)
(* Scores and min_score are in tenths (0.8 is 8): every score of the code  *)
(* is a sum of multiples of 0.1, and f64 ">=" agrees with the exact        *)
(* comparison for thresholds that are multiples of 0.1.                    *)
(***************************************************************************)
EXTENDS Integers, Sequences, FiniteSets, TLC

\* ------------------------------------------------------------------------
\* Code points used by the source and by the inputs
\* ------------------------------------------------------------------------
TAB == 9
SPACE == 32
PLUS == 43
DASH == 45
PIPE == 124
LATIN_A == 97
LATIN_B == 98
LIGHT_VERTICAL == 9474
CJK_SHI == 19990
WIDE_START == 4352
ASCII_END == 128

\* ------------------------------------------------------------------------
\* Helpers over sequences
\* ------------------------------------------------------------------------
Min(a, b) == IF a <= b THEN a ELSE b

Max(a, b) == IF a >= b THEN a ELSE b

SetMax(S) == CHOOSE x \in S : \A y \in S : y <= x

SetMin(S) == CHOOSE x \in S : \A y \in S : x <= y

Repeat(c, n) == [i \in 1..n |-> c]

RECURSIVE SumSeq(_)
SumSeq(s) == IF s = <<>> THEN 0 ELSE Head(s) + SumSeq(Tail(s))

\* char::is_whitespace (Unicode White_Space), as used by str::trim*
IsWhitespace(c) ==
    \/ c \in {9, 10, 11, 12, 13, 32, 133, 160, 5760, 8232, 8233, 8239, 8287, 12288}
    \/ (c >= 8192 /\ c <= 8202)

\* str::trim_end
TrimEnd(s) ==
    LET keep == {i \in 1..Len(s) : ~IsWhitespace(s[i])}
    IN  IF keep = {} THEN <<>> ELSE SubSeq(s, 1, SetMax(keep))

\* str::trim_start
TrimStart(s) ==
    LET keep == {i \in 1..Len(s) : ~IsWhitespace(s[i])}
    IN  IF keep = {} THEN <<>> ELSE SubSeq(s, SetMin(keep), Len(s))

\* str::trim
Trim(s) == TrimStart(TrimEnd(s))

\* Option<T>: None is the empty sequence, Some(x) the one-element sequence
None == <<>>

Some(x) == <<x>>

\* ------------------------------------------------------------------------
\* Box drawing character detection
\* ------------------------------------------------------------------------
is_corner(c) ==
    c \in {43, 9484, 9488, 9492, 9496, 9556, 9559, 9562, 9565, 9581, 9582, 9583, 9584}

is_horizontal_fill(c) ==
    c \in {45, 9472, 9473, 9552, 9548, 9549, 9476, 9477, 9480, 9481, 126, 61}

is_vertical_border(c) ==
    c \in {124, 9474, 9475, 9553, 9550, 9551, 9478, 9479, 9482, 9483}

is_junction(c) ==
    c \in {9516, 9524, 9500, 9508, 9532, 9574, 9577, 9568, 9571, 9580, 9572, 9575,
           9567, 9570, 9579, 9578}

is_box_char(c) ==
    is_corner(c) \/ is_horizontal_fill(c) \/ is_vertical_border(c) \/ is_junction(c)

is_border_char(c) == is_vertical_border(c) \/ is_corner(c) \/ is_junction(c)

\* The characters detect_vertical_border can return for a block: the vertical
\* borders with the highest count.  max_by_key over a HashMap visits the
\* entries in an unspecified order, so on a tie any of the tied characters
\* can be the result.
detect_vertical_border(block_lines) ==
    LET count(c) == SumSeq([i \in 1..Len(block_lines) |->
                        Cardinality({j \in 1..Len(block_lines[i]) : block_lines[i][j] = c})])
        present == {c \in UNION {{block_lines[i][j] : j \in 1..Len(block_lines[i])} :
                                    i \in 1..Len(block_lines)} : is_vertical_border(c)}
    IN  IF present = {} THEN {PIPE}
        ELSE {c \in present : \A d \in present : count(d) <= count(c)}

\* ------------------------------------------------------------------------
\* Line analysis
\* ------------------------------------------------------------------------
char_width(c) ==
    IF c < ASCII_END \/ is_box_char(c) \/ c < WIDE_START THEN 1 ELSE 2

visual_width(s) == SumSeq([i \in 1..Len(s) |-> char_width(s[i])])

classify_line(line) ==
    LET trimmed == Trim(line)
        box_chars == Cardinality({i \in 1..Len(trimmed) : is_box_char(trimmed[i])})
        total_chars == Len(trimmed)
        has_corner == \E i \in 1..Len(trimmed) : is_corner(trimmed[i])
        starts_with_border == is_border_char(trimmed[1])
        ends_with_border == is_border_char(trimmed[Len(trimmed)])
    IN  IF trimmed = <<>> THEN "Blank"
        ELSE IF box_chars = 0 THEN "None"
        ELSE IF has_corner \/ (starts_with_border /\ ends_with_border)
                \/ box_chars * 3 >= total_chars THEN "Strong"
        ELSE "Weak"

is_boxy(kind) == kind \in {"Weak", "Strong"}

detect_suffix_border(line) ==
    LET trimmed == TrimEnd(line)
        last_char == trimmed[Len(trimmed)]
        prefix == SubSeq(trimmed, 1, Len(trimmed) - 1)
    IN  IF trimmed = <<>> THEN None
        ELSE IF is_border_char(last_char)
             THEN Some([column |-> visual_width(prefix),
                        char |-> last_char,
                        is_closing |-> is_corner(last_char) \/ is_junction(last_char)])
        ELSE None

analyze_line(line) ==
    LET kind == classify_line(line)
    IN  [kind |-> kind,
         visual_width |-> visual_width(line),
         suffix_border |-> IF is_boxy(kind) THEN detect_suffix_border(line) ELSE None]

\* ------------------------------------------------------------------------
\* Quick scan (passthrough optimization)
\* ------------------------------------------------------------------------
\* QUICK_SCAN_THRESHOLD = 0.01, in percent
QUICK_SCAN_THRESHOLD == 1

QUICK_SCAN_LIMIT == 1000

\* quick_scan_for_diagrams with ratio > QUICK_SCAN_THRESHOLD
quickScanAboveThreshold(document) ==
    LET lines_scanned == Min(Len(document), QUICK_SCAN_LIMIT)
        lines_with_box_chars ==
            Cardinality({i \in 1..lines_scanned :
                            \E j \in 1..Len(document[i]) : is_box_char(document[i][j])})
    IN  [lines_scanned |-> lines_scanned,
         lines_with_box_chars |-> lines_with_box_chars,
         likely_has_diagrams |->
            /\ lines_scanned > 0
            /\ lines_with_box_chars * 100 > QUICK_SCAN_THRESHOLD * lines_scanned]

\* ratio >= QUICK_SCAN_THRESHOLD with ratio = hits / scanned (0.0 when nothing
\* was scanned): two ratios with denominators <= 1000 that differ are further
\* apart than the rounding of the f64 division, and 1.0 / 100.0 is the f64 0.01
quick_scan_for_diagrams(document) ==
    LET lines_scanned == Min(Len(document), QUICK_SCAN_LIMIT)
        lines_with_box_chars ==
            Cardinality({i \in 1..lines_scanned :
                            \E j \in 1..Len(document[i]) : is_box_char(document[i][j])})
    IN  [lines_scanned |-> lines_scanned,
         lines_with_box_chars |-> lines_with_box_chars,
         likely_has_diagrams |->
            /\ lines_scanned > 0
            /\ lines_with_box_chars * 100 >= QUICK_SCAN_THRESHOLD * lines_scanned]

\* ------------------------------------------------------------------------
\* Diagram block detection
\* ------------------------------------------------------------------------
\* The "extend block" loop letting a gap of two blank lines pass
RECURSIVE extendBlockOverTwoBlanks(_, _, _, _, _)
extendBlockOverTwoBlanks(document, end, strong_count, weak_count, blank_gap) ==
    LET stop == [end |-> end, strong_count |-> strong_count, weak_count |-> weak_count]
        next_kind == classify_line(document[end + 1])
        lookahead == \E k \in end..Min(end + 2, Len(document) - 1) :
                        is_boxy(classify_line(document[k + 1]))
    IN  IF ~(end < Len(document)) THEN stop
        ELSE CASE next_kind = "Strong" ->
                    extendBlockOverTwoBlanks(document, end + 1, strong_count + 1, weak_count, 0)
               [] next_kind = "Weak" ->
                    extendBlockOverTwoBlanks(document, end + 1, strong_count, weak_count + 1, 0)
               [] next_kind = "Blank" ->
                    IF blank_gap + 1 > 2 THEN stop
                    ELSE extendBlockOverTwoBlanks(document, end + 1, strong_count, weak_count,
                                                  blank_gap + 1)
               [] next_kind = "None" ->
                    IF lookahead /\ blank_gap = 0
                    THEN extendBlockOverTwoBlanks(document, end + 1, strong_count, weak_count,
                                                  blank_gap)
                    ELSE stop

\* The "extend block" loop of find_diagram_blocks
RECURSIVE ExtendBlock(_, _, _, _, _)
ExtendBlock(document, end, strong_count, weak_count, blank_gap) ==
    LET stop == [end |-> end, strong_count |-> strong_count, weak_count |-> weak_count]
        next_kind == classify_line(document[end + 1])
        \* lines.iter().skip(end).take(3): the lines at end, end + 1, end + 2
        lookahead == \E k \in end..Min(end + 2, Len(document) - 1) :
                        is_boxy(classify_line(document[k + 1]))
    IN  IF ~(end < Len(document)) THEN stop
        ELSE CASE next_kind = "Strong" ->
                    ExtendBlock(document, end + 1, strong_count + 1, weak_count, 0)
               [] next_kind = "Weak" ->
                    ExtendBlock(document, end + 1, strong_count, weak_count + 1, 0)
               [] next_kind = "Blank" ->
                    IF blank_gap + 1 > 1 THEN stop
                    ELSE ExtendBlock(document, end + 1, strong_count, weak_count, blank_gap + 1)
               [] next_kind = "None" ->
                    IF lookahead /\ blank_gap = 0
                    THEN ExtendBlock(document, end + 1, strong_count, weak_count, blank_gap)
                    ELSE stop

\* The "trim trailing blanks" loop of find_diagram_blocks
RECURSIVE TrimTrailingBlanks(_, _, _)
TrimTrailingBlanks(document, start, end) ==
    IF end > start /\ classify_line(document[end]) = "Blank"
    THEN TrimTrailingBlanks(document, start, end - 1)
    ELSE end

\* confidence with the size bonus not capped at 0.2
confidenceUncappedBonus(strong_count, weak_count, start, end) ==
    LET total == strong_count + weak_count
    IN  IF total > 0
        THEN [num |-> Min(8 * strong_count + total * (end - start), 10 * total),
              den |-> 10 * total]
        ELSE [num |-> 0, den |-> 1]

\* confidence as the exact fraction num / den:
\* (strong_ratio * 0.8 + min((end - start) / 10, 0.2)).min(1.0), 0.0 when total = 0
Confidence(strong_count, weak_count, start, end) ==
    LET total == strong_count + weak_count
    IN  IF total > 0
        THEN [num |-> Min(8 * strong_count + total * Min(end - start, 2), 10 * total),
              den |-> 10 * total]
        ELSE [num |-> 0, den |-> 1]

\* confidence >= 0.3
MeetsThreshold(confidence) == 10 * confidence.num >= 3 * confidence.den

\* The outer loop of find_diagram_blocks going on at start + 1 instead of end
RECURSIVE findBlocksRescanning(_, _, _, _)
findBlocksRescanning(document, i, all_blocks, found) ==
    LET boxy_from_i == {k \in i..(Len(document) - 1) : is_boxy(classify_line(document[k + 1]))}
    IN  IF boxy_from_i = {} THEN found
        ELSE LET start == SetMin(boxy_from_i)
                 kind == classify_line(document[start + 1])
                 ext == ExtendBlock(document, start + 1,
                                    IF kind = "Strong" THEN 1 ELSE 0,
                                    IF kind = "Weak" THEN 1 ELSE 0, 0)
                 end == TrimTrailingBlanks(document, start, ext.end)
                 confidence == Confidence(ext.strong_count, ext.weak_count, start, end)
                 block == [start |-> start, end |-> end, confidence |-> confidence]
             IN  findBlocksRescanning(document, start + 1, all_blocks,
                                      IF all_blocks \/ MeetsThreshold(confidence)
                                      THEN Append(found, block) ELSE found)

\* The outer loop of find_diagram_blocks, from line i on; the iterations over
\* lines that are not boxy (i += 1; continue) are taken in one step
RECURSIVE FindBlocksFrom(_, _, _, _)
FindBlocksFrom(document, i, all_blocks, found) ==
    LET boxy_from_i == {k \in i..(Len(document) - 1) : is_boxy(classify_line(document[k + 1]))}
    IN  IF boxy_from_i = {} THEN found
        ELSE LET start == SetMin(boxy_from_i)
                 kind == classify_line(document[start + 1])
                 ext == ExtendBlock(document, start + 1,
                                    IF kind = "Strong" THEN 1 ELSE 0,
                                    IF kind = "Weak" THEN 1 ELSE 0, 0)
                 end == TrimTrailingBlanks(document, start, ext.end)
                 confidence == Confidence(ext.strong_count, ext.weak_count, start, end)
                 block == [start |-> start, end |-> end, confidence |-> confidence]
             IN  FindBlocksFrom(document, end, all_blocks,
                                IF all_blocks \/ MeetsThreshold(confidence)
                                THEN Append(found, block) ELSE found)

find_diagram_blocks(document, all_blocks) == FindBlocksFrom(document, 0, all_blocks, <<>>)

\* ------------------------------------------------------------------------
\* Revision system
\* ------------------------------------------------------------------------
PadBeforeSuffixBorder(line_idx, spaces_to_add, target_column) ==
    [type |-> "PadBeforeSuffixBorder", line_idx |-> line_idx,
     spaces_to_add |-> spaces_to_add, target_column |-> target_column]

AddSuffixBorder(line_idx, border_char, target_column) ==
    [type |-> "AddSuffixBorder", line_idx |-> line_idx,
     border_char |-> border_char, target_column |-> target_column]

\* Revision::score, in tenths
score(rev, analyzed, block_start) ==
    LET line == analyzed[rev.line_idx - block_start + 1]
    IN  IF rev.type = "PadBeforeSuffixBorder"
        THEN LET adjustment_penalty == Min(rev.spaces_to_add, 5)
                 strength_bonus == IF line.kind = "Strong" THEN 2 ELSE 0
             IN  8 - adjustment_penalty + strength_bonus
        ELSE LET base == 5
                 strength_bonus == IF line.kind = "Strong" THEN 2 ELSE 1
             IN  base + strength_bonus

\* Revision::apply padding with the horizontal fill '-' instead of ' '
applyDashFill(rev, document) ==
    LET line == document[rev.line_idx + 1]
        trimmed == TrimEnd(line)
    IN  IF rev.type = "PadBeforeSuffixBorder"
        THEN IF trimmed # <<>> /\ is_border_char(trimmed[Len(trimmed)])
             THEN [document EXCEPT ![rev.line_idx + 1] =
                      SubSeq(trimmed, 1, Len(trimmed) - 1)
                      \o Repeat(DASH, rev.spaces_to_add)
                      \o <<trimmed[Len(trimmed)]>>]
             ELSE document
        ELSE LET current_width == visual_width(trimmed)
                 padding == Max(rev.target_column - current_width, 0)
             IN  [document EXCEPT ![rev.line_idx + 1] =
                      trimmed \o Repeat(DASH, padding) \o <<rev.border_char>>]

\* Revision::apply inserting one space more than spaces_to_add
applyOneSpaceMore(rev, document) ==
    LET line == document[rev.line_idx + 1]
        trimmed == TrimEnd(line)
    IN  IF rev.type = "PadBeforeSuffixBorder"
        THEN IF trimmed # <<>> /\ is_border_char(trimmed[Len(trimmed)])
             THEN [document EXCEPT ![rev.line_idx + 1] =
                      SubSeq(trimmed, 1, Len(trimmed) - 1)
                      \o Repeat(SPACE, rev.spaces_to_add + 1)
                      \o <<trimmed[Len(trimmed)]>>]
             ELSE document
        ELSE LET current_width == visual_width(trimmed)
                 padding == Max(rev.target_column - current_width, 0)
             IN  [document EXCEPT ![rev.line_idx + 1] =
                      trimmed \o Repeat(SPACE, padding) \o <<rev.border_char>>]

\* Revision::apply whose PadBeforeSuffixBorder inserts no space
applyNoSpaces(rev, document) ==
    LET line == document[rev.line_idx + 1]
        trimmed == TrimEnd(line)
    IN  IF rev.type = "PadBeforeSuffixBorder"
        THEN IF trimmed # <<>> /\ is_border_char(trimmed[Len(trimmed)])
             THEN [document EXCEPT ![rev.line_idx + 1] = trimmed]
             ELSE document
        ELSE LET current_width == visual_width(trimmed)
                 padding == Max(rev.target_column - current_width, 0)
             IN  [document EXCEPT ![rev.line_idx + 1] =
                      trimmed \o Repeat(SPACE, padding) \o <<rev.border_char>>]

\* Revision::apply
apply(rev, document) ==
    LET line == document[rev.line_idx + 1]
        trimmed == TrimEnd(line)
    IN  IF rev.type = "PadBeforeSuffixBorder"
        THEN IF trimmed # <<>> /\ is_border_char(trimmed[Len(trimmed)])
             THEN [document EXCEPT ![rev.line_idx + 1] =
                      SubSeq(trimmed, 1, Len(trimmed) - 1)
                      \o Repeat(SPACE, rev.spaces_to_add)
                      \o <<trimmed[Len(trimmed)]>>]
             ELSE document
        ELSE LET current_width == visual_width(trimmed)
                 padding == Max(rev.target_column - current_width, 0)
             IN  [document EXCEPT ![rev.line_idx + 1] =
                      trimmed \o Repeat(SPACE, padding) \o <<rev.border_char>>]

RECURSIVE ApplyAll(_, _)
ApplyAll(revs, document) ==
    IF revs = <<>> THEN document ELSE ApplyAll(Tail(revs), apply(Head(revs), document))

\* ------------------------------------------------------------------------
\* Block correction: the parts of one iteration of correct_block
\* ------------------------------------------------------------------------
AnalyzeBlock(document, block) ==
    [i \in 1..(block.end - block.start) |-> analyze_line(document[block.start + i])]

\* TargetColumn taking the leftmost instead of the rightmost border
TargetColumnLeftmost(analyzed) ==
    LET cols == {analyzed[i].suffix_border[1].column :
                    i \in {j \in 1..Len(analyzed) : analyzed[j].suffix_border # None}}
    IN  IF cols = {} THEN None ELSE Some(SetMin(cols))

\* target_column: Some(max suffix-border column) or None
TargetColumn(analyzed) ==
    LET cols == {analyzed[i].suffix_border[1].column :
                    i \in {j \in 1..Len(analyzed) : analyzed[j].suffix_border # None}}
    IN  IF cols = {} THEN None ELSE Some(SetMax(cols))

\* CandidateFor with the padding miscounted by one (target - column + 1)
CandidateForOneMore(analyzed_line, global_idx, target, border_char) ==
    IF analyzed_line.suffix_border # None
    THEN IF analyzed_line.suffix_border[1].column < target
         THEN Some(PadBeforeSuffixBorder(global_idx,
                        target - analyzed_line.suffix_border[1].column + 1, target))
         ELSE None
    ELSE IF is_boxy(analyzed_line.kind)
         THEN Some(AddSuffixBorder(global_idx, border_char, target))
         ELSE None

\* CandidateFor that moves a lagging border one column per iteration
CandidateForOneStep(analyzed_line, global_idx, target, border_char) ==
    IF analyzed_line.suffix_border # None
    THEN IF analyzed_line.suffix_border[1].column < target
         THEN Some(PadBeforeSuffixBorder(global_idx, 1, target))
         ELSE None
    ELSE IF is_boxy(analyzed_line.kind)
         THEN Some(AddSuffixBorder(global_idx, border_char, target))
         ELSE None

\* CandidateFor without the is_boxy test before AddSuffixBorder
CandidateForAnyLine(analyzed_line, global_idx, target, border_char) ==
    IF analyzed_line.suffix_border # None
    THEN IF analyzed_line.suffix_border[1].column < target
         THEN Some(PadBeforeSuffixBorder(global_idx,
                        target - analyzed_line.suffix_border[1].column, target))
         ELSE None
    ELSE Some(AddSuffixBorder(global_idx, border_char, target))

\* The revision generated for one analyzed line: Some(revision) or None
CandidateFor(analyzed_line, global_idx, target, border_char) ==
    IF analyzed_line.suffix_border # None
    THEN IF analyzed_line.suffix_border[1].column < target
         THEN Some(PadBeforeSuffixBorder(global_idx,
                        target - analyzed_line.suffix_border[1].column, target))
         ELSE None
    ELSE IF is_boxy(analyzed_line.kind)
         THEN Some(AddSuffixBorder(global_idx, border_char, target))
         ELSE None

\* The candidate revisions, in line order
RECURSIVE GenerateFrom(_, _, _, _, _)
GenerateFrom(analyzed, i, block, target, border_char) ==
    IF i > Len(analyzed) THEN <<>>
    ELSE CandidateFor(analyzed[i], block.start + (i - 1), target, border_char)
         \o GenerateFrom(analyzed, i + 1, block, target, border_char)

\* Candidate generation that visits every line of the block twice
generateRevisionsTwice(analyzed, block, target, border_char) ==
    GenerateFrom(analyzed, 1, block, target, border_char)
        \o GenerateFrom(analyzed, 1, block, target, border_char)

GenerateRevisions(analyzed, block, target, border_char) ==
    GenerateFrom(analyzed, 1, block, target, border_char)

Preset_min_score(preset) ==
    CASE preset = "Strict" -> 8
      [] preset = "Normal" -> 5
      [] preset = "Aggressive" -> 3
      [] preset = "Relaxed" -> 1

\* effective_min_score that does not look at the preset
effectiveMinScoreIgnoringPreset(cfg) == cfg.min_score

effective_min_score(cfg) ==
    IF cfg.preset # "none" THEN Preset_min_score(cfg.preset) ELSE cfg.min_score

\* A score filter that lets only the first passing revision through
validRevisionsFirstOnly(revisions, analyzed, block, cfg) ==
    LET keep(r) == score(r, analyzed, block.start) >= effective_min_score(cfg)
    IN  SubSeq(SelectSeq(revisions, keep), 1, Min(1, Len(SelectSeq(revisions, keep))))

ValidRevisions(revisions, analyzed, block, cfg) ==
    LET keep(r) == score(r, analyzed, block.start) >= effective_min_score(cfg)
    IN  SelectSeq(revisions, keep)

\* ------------------------------------------------------------------------
\* Tab expansion
\* ------------------------------------------------------------------------
\* The loop of expand_tabs counting one column for every character
RECURSIVE expandFromCounting(_, _, _, _, _)
expandFromCounting(line, i, col, tab_width, result) ==
    IF i > Len(line) THEN result
    ELSE IF line[i] = TAB
         THEN LET spaces == tab_width - (col % tab_width)
              IN  expandFromCounting(line, i + 1, col + spaces, tab_width,
                                     result \o Repeat(SPACE, spaces))
         ELSE expandFromCounting(line, i + 1, col + 1, tab_width, Append(result, line[i]))

RECURSIVE ExpandFrom(_, _, _, _, _)
ExpandFrom(line, i, col, tab_width, result) ==
    IF i > Len(line) THEN result
    ELSE IF line[i] = TAB
         THEN LET spaces == tab_width - (col % tab_width)
              IN  ExpandFrom(line, i + 1, col + spaces, tab_width,
                             result \o Repeat(SPACE, spaces))
         ELSE ExpandFrom(line, i + 1, col + char_width(line[i]), tab_width,
                         Append(result, line[i]))

expand_tabs(line, tab_width) == ExpandFrom(line, 1, 0, tab_width, <<>>)

\* ExpandAll that drops the empty lines
NotEmptyLine(line) == line # <<>>

ExpandAllDropEmpty(document, tab_width) ==
    SelectSeq([i \in 1..Len(document) |-> expand_tabs(document[i], tab_width)], NotEmptyLine)

ExpandAll(document, tab_width) ==
    [i \in 1..Len(document) |-> expand_tabs(document[i], tab_width)]

\* block_overlaps_ranges that takes block.start for a 1-indexed line number
blockOverlapsZeroIndexed(block, ranges) ==
    \E k \in 1..Len(ranges) :
        block.start <= ranges[k].end /\ block.end >= ranges[k].start

\* ------------------------------------------------------------------------
\* Line ranges
\* ------------------------------------------------------------------------
\* Block indexes are 0-based, ranges are 1-based and inclusive
block_overlaps_ranges(block, ranges) ==
    LET block_start == block.start + 1
        block_end == block.end
    IN  \E k \in 1..Len(ranges) :
            block_start <= ranges[k].end /\ block_end >= ranges[k].start

\* usize::MAX ("to end of file"), as the largest integer of the model checker
USIZE_MAX == 2147483647

LineRange(start, end) == [start |-> start, end |-> end]

COMMA == 44

DIGIT_ZERO == 48

DIGIT_NINE == 57

Ok(x) == [ok |-> TRUE, value |-> x]

Err == [ok |-> FALSE]

\* The value of a string of ASCII digits
RECURSIVE DigitsValue(_)
DigitsValue(s) ==
    IF s = <<>> THEN 0
    ELSE 10 * DigitsValue(SubSeq(s, 1, Len(s) - 1)) + (s[Len(s)] - DIGIT_ZERO)

\* str::parse::<usize>: an optional '+' and at least one ASCII digit (the
\* strings of the model are too short for the value to exceed usize::MAX)
ParseDigits(digits) ==
    IF digits = <<>> \/ \E i \in 1..Len(digits) : digits[i] \notin DIGIT_ZERO..DIGIT_NINE
    THEN Err
    ELSE Ok(DigitsValue(digits))

parse_usize(s) == ParseDigits(IF s # <<>> /\ s[1] = PLUS THEN Tail(s) ELSE s)

\* parse_single_range, the item with a dash: the start ("-100" means "1-100")
ParseStart(start_str) == IF start_str = <<>> THEN Ok(1) ELSE parse_usize(start_str)

\* parse_single_range, the item with a dash: the end ("50-" means "50 to end")
ParseEnd(end_str) == IF end_str = <<>> THEN Ok(USIZE_MAX) ELSE parse_usize(end_str)

\* parse_single_range, the item with a dash: the checks on the two numbers
ParseBounds(start, end) ==
    IF ~start.ok THEN Err
    ELSE IF ~end.ok THEN Err
    ELSE IF start.value = 0 THEN Err
    ELSE IF start.value > end.value /\ end.value # USIZE_MAX THEN Err
    ELSE Ok(LineRange(start.value, end.value))

\* parse_single_range, the item without a dash: a single line number
ParseLineNumber(line) ==
    IF ~line.ok THEN Err
    ELSE IF line.value = 0 THEN Err
    ELSE Ok(LineRange(line.value, line.value))

DashPositions(s) == {i \in 1..Len(s) : s[i] = DASH}

\* s.split_at(dash_pos), the dash skipped
SplitAtDash(s, dash_pos) ==
    ParseBounds(ParseStart(SubSeq(s, 1, dash_pos - 1)),
                ParseEnd(SubSeq(s, dash_pos + 1, Len(s))))

\* parse_single_range after s.trim()
ParseTrimmedRange(s) ==
    IF s = <<>> THEN Err
    ELSE IF DashPositions(s) # {} THEN SplitAtDash(s, SetMin(DashPositions(s)))
    ELSE ParseLineNumber(parse_usize(s))

parse_single_range(str) == ParseTrimmedRange(Trim(str))

\* ranges.sort_by_key(|r| r.start): a stable sort
RECURSIVE SortByStart(_)
SortByStart(ranges) ==
    IF ranges = <<>> THEN <<>>
    ELSE LET least == SetMin({ranges[i].start : i \in 1..Len(ranges)})
             first == SetMin({i \in 1..Len(ranges) : ranges[i].start = least})
         IN  <<ranges[first]>>
             \o SortByStart(SubSeq(ranges, 1, first - 1) \o SubSeq(ranges, first + 1, Len(ranges)))

\* usize::saturating_add(1)
SaturatingSucc(n) == IF n = USIZE_MAX THEN USIZE_MAX ELSE n + 1

\* The loop of merge_ranges over the sorted ranges
RECURSIVE MergeFrom(_, _, _, _)
MergeFrom(sorted, i, current, merged) ==
    IF i > Len(sorted) THEN Append(merged, current)
    ELSE IF sorted[i].start <= SaturatingSucc(current.end)
         THEN MergeFrom(sorted, i + 1,
                        [current EXCEPT !.end = Max(current.end, sorted[i].end)], merged)
         ELSE MergeFrom(sorted, i + 1, sorted[i], Append(merged, current))

MergeSorted(sorted) == MergeFrom(sorted, 2, sorted[1], <<>>)

\* merge_ranges without the sort by start
mergeRangesUnsorted(ranges) ==
    IF ranges = <<>> THEN ranges ELSE MergeSorted(ranges)

merge_ranges(ranges) ==
    IF ranges = <<>> THEN ranges ELSE MergeSorted(SortByStart(ranges))

\* str::split(','): the parts between the commas
RECURSIVE SplitCommas(_)
SplitCommas(s) ==
    LET commas == {i \in 1..Len(s) : s[i] = COMMA}
    IN  IF commas = {} THEN <<s>>
        ELSE LET first == SetMin(commas)
             IN  <<SubSeq(s, 1, first - 1)>> \o SplitCommas(SubSeq(s, first + 1, Len(s)))

NotEmptyPart(part) == part # <<>>

\* The loop of parse_line_ranges: the parts are trimmed and the empty ones skipped
KeptParts(parts) == SelectSeq([i \in 1..Len(parts) |-> Trim(parts[i])], NotEmptyPart)

\* The loop of parse_line_ranges: a part that does not parse ends it with an error
CollectRanges(results) ==
    IF \E i \in 1..Len(results) : ~results[i].ok THEN Err
    ELSE Ok([i \in 1..Len(results) |-> results[i].value])

ParseKept(kept) == CollectRanges([i \in 1..Len(kept) |-> parse_single_range(kept[i])])

\* The end of parse_line_ranges: no range is an error, the ranges are merged
FinishParse(parsed) ==
    IF ~parsed.ok THEN Err
    ELSE IF parsed.value = <<>> THEN Err
    ELSE Ok(merge_ranges(parsed.value))

parse_line_ranges(s) == FinishParse(ParseKept(KeptParts(SplitCommas(s))))

\* ------------------------------------------------------------------------
\* Output
\* ------------------------------------------------------------------------
NEWLINE == 10

\* [String]::join("\n") of the lines lo..hi, computed by halves
RECURSIVE JoinRange(_, _, _)
JoinRange(document, lo, hi) ==
    IF lo > hi THEN <<>>
    ELSE IF lo = hi THEN document[lo]
    ELSE LET mid == (lo + hi) \div 2
         IN  JoinRange(document, lo, mid) \o <<NEWLINE>> \o JoinRange(document, mid + 1, hi)

Join(document) == JoinRange(document, 1, Len(document))

\* writeln!(stdout, "{}", line) for every line
WriteLines(document) ==
    IF document = <<>> THEN <<>> ELSE Join(document) \o <<NEWLINE>>

SUCCESS == 0

WOULD_CHANGE == 3

\* process_input: would_change
WouldChange(original, corrected) == Join(original) # Join(corrected)

\* ExitCode that forgets would_change
ExitCodeAnyDryRun(dry_run, changed) == IF dry_run THEN WOULD_CHANGE ELSE SUCCESS

\* main: the exit code of a run that returned Ok(outcome)
ExitCode(dry_run, changed) == IF dry_run /\ changed THEN WOULD_CHANGE ELSE SUCCESS

\* ------------------------------------------------------------------------
\* Configuration
\* ------------------------------------------------------------------------
INVALID_ARGS == 2

\* The defaults of --max-iters, --min-score (in tenths) and --tab-width
DEFAULT_MAX_ITERS == 10

DEFAULT_MIN_SCORE == 5

DEFAULT_TAB_WIDTH == 4

MAX_TAB_WIDTH == 16

\* validate_args, for a run with one input and without --in-place: TRUE for Ok
validate_args(a) ==
    /\ 0 <= a.min_score /\ a.min_score <= 10
    /\ a.max_iters # 0
    /\ ~(a.tab_width = 0 \/ a.tab_width > MAX_TAB_WIDTH)

\* Result::ok
ResultOk(result) == IF result.ok THEN Some(result.value) ELSE None

\* impl From<&Args> for Config
config_from(a) ==
    [max_iters |-> a.max_iters, min_score |-> a.min_score, preset |-> a.preset,
     tab_width |-> a.tab_width, all_blocks |-> a.all,
     lines |-> IF a.lines = None THEN None ELSE ResultOk(parse_line_ranges(a.lines[1])),
     dry_run |-> a.dry_run]

\* create_config: the values of the config file fc are merged into cfg
MergeFileConfig(a, fc, cfg) ==
    [cfg EXCEPT
        !.preset = IF a.preset = "none" /\ fc.preset # None THEN fc.preset[1] ELSE @,
        !.min_score = IF a.preset = "none" /\ fc.preset = None /\ fc.min_score # None
                         /\ cfg.preset = "none"
                      THEN fc.min_score[1] ELSE @,
        !.max_iters = IF a.max_iters = DEFAULT_MAX_ITERS /\ fc.max_iters # None
                      THEN fc.max_iters[1] ELSE @,
        !.tab_width = IF a.tab_width = DEFAULT_TAB_WIDTH /\ fc.tab_width # None
                      THEN fc.tab_width[1] ELSE @,
        !.all_blocks = IF ~a.all /\ fc.all # None THEN fc.all[1] ELSE @]

\* create_config with the config file loaded (fc = None: --no-config or no file found)
create_config(a, fc) ==
    IF a.no_config \/ fc = None THEN config_from(a)
    ELSE MergeFileConfig(a, fc[1], config_from(a))

\* expand_tabs divides by tab_width when it meets a tab: with tab_width = 0 it panics
ExpandTabsPanics(document, cfg) ==
    /\ cfg.tab_width = 0
    /\ \E i \in 1..Len(document) : \E j \in 1..Len(document[i]) : document[i][j] = TAB

\* ------------------------------------------------------------------------
\* Inputs
\* ------------------------------------------------------------------------
MaxLines == 3

MaxIters == 3

\* "+------+"  "<U+2502>a<U+2502>   "  "|aaaaa"  "<U+4E16><TAB>|"  "a<TAB>b"  ""  "a-|"
\* "aaaaaa|"
LineSpace ==
    { <<PLUS, DASH, DASH, DASH, DASH, DASH, DASH, PLUS>>,
      <<LIGHT_VERTICAL, LATIN_A, LIGHT_VERTICAL, SPACE, SPACE, SPACE>>,
      <<PIPE, LATIN_A, LATIN_A, LATIN_A, LATIN_A, LATIN_A>>,
      <<CJK_SHI, TAB, PIPE>>,
      <<LATIN_A, TAB, LATIN_B>>,
      <<>>,
      <<LATIN_A, DASH, PIPE>>,
      <<LATIN_A, LATIN_A, LATIN_A, LATIN_A, LATIN_A, LATIN_A, PIPE>> }

DocSpace == UNION {[1..n -> LineSpace] : n \in 0..MaxLines}

MinScores == {3, 5, 7}

TabWidths == {4}

RangeSpace == {None}

ConfigSpace ==
    {c \in [max_iters : 1..MaxIters, min_score : MinScores, preset : {"none", "Strict"},
            tab_width : TabWidths, all_blocks : BOOLEAN, lines : RangeSpace,
            dry_run : BOOLEAN] :
        c.preset # "none" => c.min_score = 5}

\* Long documents for the quick scan: ordinary text "a<TAB>b" with diagram lines
\* at the positions S. Line 1 is "+------+", line 2 "a-|", any other diagram
\* line "|aaaaa".
ScanLengths == {0, 1, 2, 99, 100, 101, 200, 201, 1000, 1001, 1002}

ScanHead == {{}, {1}, {1, 2}, 1..9, 1..10}

ScanTail == {{}, {1001}, {1001, 1002}}

ScanLine(i) ==
    IF i = 1 THEN <<PLUS, DASH, DASH, DASH, DASH, DASH, DASH, PLUS>>
    ELSE IF i = 2 THEN <<LATIN_A, DASH, PIPE>>
    ELSE <<PIPE, LATIN_A, LATIN_A, LATIN_A, LATIN_A, LATIN_A>>

ScanDoc(n, S) == [i \in 1..n |-> IF i \in S THEN ScanLine(i) ELSE <<LATIN_A, TAB, LATIN_B>>]

ScanDocSpace ==
    {ScanDoc(n, h \cup t) : n \in ScanLengths, h \in ScanHead, t \in ScanTail}

ScanConfigSpace ==
    {c \in ConfigSpace : c.preset = "none" /\ c.min_score = 5 /\ c.max_iters <= 2}

\* Documents for the line-range filter: two diagrams (either may be missing)
\* with a gap of two blank lines or three lines of text between them
MaxRangeLine == 7

RangeDiagrams ==
    { <<>>,
      << <<PIPE, LATIN_A, LATIN_A, LATIN_A, LATIN_A, LATIN_A>> >>,
      << <<PLUS, DASH, DASH, DASH, DASH, DASH, DASH, PLUS>> >>,
      << <<PLUS, DASH, DASH, DASH, DASH, DASH, DASH, PLUS>>, <<LATIN_A, DASH, PIPE>> >>,
      << <<LATIN_A, DASH, PIPE>>, <<PLUS, DASH, DASH, DASH, DASH, DASH, DASH, PLUS>> >>,
      << <<PIPE, LATIN_A, LATIN_A, LATIN_A, LATIN_A, LATIN_A>>,
         <<PLUS, DASH, DASH, DASH, DASH, DASH, DASH, PLUS>> >> }

RangeGaps ==
    { << <<>>, <<>> >>,
      << <<LATIN_A, TAB, LATIN_B>>, <<LATIN_A, TAB, LATIN_B>>, <<LATIN_A, TAB, LATIN_B>> >> }

RangeDocSpace == {d1 \o g \o d2 : d1 \in RangeDiagrams, g \in RangeGaps, d2 \in RangeDiagrams}

\* One range, bounded or open-ended, or two ranges around a hole
RangeSets ==
    LET ends(a) == (a..MaxRangeLine) \cup {USIZE_MAX}
    IN  UNION {{<<LineRange(a, b)>> : b \in ends(a)} : a \in 1..MaxRangeLine}
        \cup {<<LineRange(1, 1), LineRange(a, USIZE_MAX)>> : a \in 3..MaxRangeLine}

RangeConfigSpace ==
    {c \in [max_iters : 1..2, min_score : {5}, preset : {"none"},
            tab_width : TabWidths, all_blocks : BOOLEAN,
            lines : {Some(r) : r \in RangeSets}, dry_run : {FALSE}] : TRUE}

\* Command lines: each option with the value clap hands over and whether it
\* was given (clap fills in the default when it was not; --preset conflicts
\* with --min-score). "1-2", "2-1" and "" as --lines.
ArgsSpace ==
    {a \in [min_score : {3, 5, 12}, min_score_given : BOOLEAN, preset : {"none", "Strict"},
            max_iters : {0, 1, DEFAULT_MAX_ITERS}, max_iters_given : BOOLEAN,
            tab_width : {0, DEFAULT_TAB_WIDTH}, tab_width_given : BOOLEAN,
            all : {FALSE}, dry_run : {FALSE}, no_config : BOOLEAN, given : {TRUE},
            lines : {None, Some(<<DIGIT_ZERO + 1, DASH, DIGIT_ZERO + 2>>),
                     Some(<<DIGIT_ZERO + 2, DASH, DIGIT_ZERO + 1>>), Some(<<>>)}] :
        /\ ~a.min_score_given => a.min_score = DEFAULT_MIN_SCORE
        /\ ~a.max_iters_given => a.max_iters = DEFAULT_MAX_ITERS
        /\ ~a.tab_width_given => a.tab_width = DEFAULT_TAB_WIDTH
        /\ a.preset # "none" => ~a.min_score_given}

\* Config files: each key absent or set
FileConfigSpace ==
    [min_score : {None, Some(3)}, preset : {None, Some("Strict")},
     max_iters : {None, Some(0), Some(2)}, tab_width : {None, Some(0), Some(8)},
     all : {None, Some(TRUE)}]

StartupDocSpace ==
    { << <<LATIN_A, TAB, LATIN_B>> >>,
      << <<PLUS, DASH, DASH, DASH, DASH, DASH, DASH, PLUS>>, <<LATIN_A, DASH, PIPE>> >>,
      << <<PIPE, LATIN_A, LATIN_A, LATIN_A, LATIN_A, LATIN_A>> >> }

\* ------------------------------------------------------------------------
\* State
\* ------------------------------------------------------------------------
VARIABLES
    input,            \* the lines read (FileResult.original)
    config,           \* Config
    pc,               \* "start", "loop", "done", "exited"
    lines,            \* the working lines of correct_lines (FileResult.corrected)
    stats,            \* Stats
    blocks,           \* the blocks found by find_diagram_blocks
    bi,               \* index (1-based) in blocks of the block being corrected
    iteration,        \* correct_block: the loop counter
    total_revisions,  \* correct_block: revisions applied to the block so far
    total_skipped,    \* correct_block: revisions skipped in the block so far
    loop_exit,        \* how correct_block left its loop for the last block corrected:
                      \* reason, index of the block, iterations that applied revisions
    would_change,     \* FileResult.would_change
    exit_code,        \* the process exit code, -1 while running
    stdout,           \* the text written to standard output
    pass,             \* 1: first run; 2: the run on the first run's output
    first_run,        \* pass 2: input, output and last loop_exit of the first run
    args,             \* Args as parsed from the command line (NoArgs: Config given directly)
    file_config,      \* the FileConfig loaded by create_config, None when none is loaded
    disk,             \* the files named by the paths of a run over files
    path_idx,         \* output_multiple_results: number of paths the loop has taken
    errors,           \* output_multiple_results: errors
    any_would_change, \* output_multiple_results: any_would_change
    json_out          \* the JsonOutput values printed

vars == <<args, file_config, disk, path_idx, errors, any_would_change, json_out,
          input, config, pc, lines, stats, blocks, bi, iteration, total_revisions,
          total_skipped, loop_exit, would_change, exit_code, stdout, pass, first_run>>

\* loop_exit before any block was corrected
NoExit == [reason |-> "none", block |-> 0, iterations |-> 0]

\* correct_lines called with a Config that was not made from Args
NoArgs == [given |-> FALSE]

\* A run that is not over the files of paths
NoFiles ==
    /\ disk = <<>>
    /\ path_idx = 0
    /\ errors = <<>>
    /\ any_would_change = FALSE
    /\ json_out = <<>>

ZeroStats(total_lines) ==
    [blocks_found |-> 0, blocks_modified |-> 0, blocks_skipped |-> 0,
     total_revisions |-> 0, revisions_skipped |-> 0, total_lines |-> total_lines]

Init ==
    /\ input \in DocSpace
    /\ config \in ConfigSpace
    /\ pc = "start"
    /\ lines = input
    /\ stats = ZeroStats(0)
    /\ blocks = <<>>
    /\ bi = 0
    /\ iteration = 0
    /\ total_revisions = 0
    /\ total_skipped = 0
    /\ loop_exit = NoExit
    /\ would_change = FALSE
    /\ exit_code = -1
    /\ stdout = <<>>
    /\ pass = 1
    /\ first_run = [input |-> <<>>, output |-> <<>>, loop_exit |-> NoExit]
    /\ args = NoArgs
    /\ file_config = None
    /\ NoFiles

\* The program started on a long document
InitScan ==
    /\ input \in ScanDocSpace
    /\ config \in ScanConfigSpace
    /\ pc = "start"
    /\ lines = input
    /\ stats = ZeroStats(0)
    /\ blocks = <<>>
    /\ bi = 0
    /\ iteration = 0
    /\ total_revisions = 0
    /\ total_skipped = 0
    /\ loop_exit = NoExit
    /\ would_change = FALSE
    /\ exit_code = -1
    /\ stdout = <<>>
    /\ pass = 1
    /\ first_run = [input |-> <<>>, output |-> <<>>, loop_exit |-> NoExit]
    /\ args = NoArgs
    /\ file_config = None
    /\ NoFiles

\* The program started with a line-range filter
InitRanges ==
    /\ input \in RangeDocSpace
    /\ config \in RangeConfigSpace
    /\ pc = "start"
    /\ lines = input
    /\ stats = ZeroStats(0)
    /\ blocks = <<>>
    /\ bi = 0
    /\ iteration = 0
    /\ total_revisions = 0
    /\ total_skipped = 0
    /\ loop_exit = NoExit
    /\ would_change = FALSE
    /\ exit_code = -1
    /\ stdout = <<>>
    /\ pass = 1
    /\ first_run = [input |-> <<>>, output |-> <<>>, loop_exit |-> NoExit]
    /\ args = NoArgs
    /\ file_config = None
    /\ NoFiles

\* The program started from its command line, a config file possibly present
InitStartup ==
    /\ args \in ArgsSpace
    /\ file_config \in {None} \cup {Some(fc) : fc \in FileConfigSpace}
    /\ args.no_config => file_config = None
    /\ input \in StartupDocSpace
    /\ config = config_from(args)
    /\ pc = "args"
    /\ lines = input
    /\ stats = ZeroStats(0)
    /\ blocks = <<>>
    /\ bi = 0
    /\ iteration = 0
    /\ total_revisions = 0
    /\ total_skipped = 0
    /\ loop_exit = NoExit
    /\ would_change = FALSE
    /\ exit_code = -1
    /\ stdout = <<>>
    /\ pass = 1
    /\ first_run = [input |-> <<>>, output |-> <<>>, loop_exit |-> NoExit]
    /\ NoFiles

\* ------------------------------------------------------------------------
\* run: validate_args and create_config
\* ------------------------------------------------------------------------
\* validate_args returns an ArgError: main exits with INVALID_ARGS
InvalidArgs ==
    /\ pc = "args"
    /\ ~validate_args(args)
    /\ exit_code' = INVALID_ARGS
    /\ pc' = "exited"
    /\ UNCHANGED <<args, file_config, disk, path_idx, errors, any_would_change, json_out,
                   input, config, lines, stats, blocks, bi, iteration,
                   total_revisions, total_skipped, loop_exit, would_change, stdout, pass,
                   first_run>>

\* validate_args returns Ok: create_config makes the Config, the input is read
\* and process_input is about to call correct_lines
Configure ==
    /\ pc = "args"
    /\ validate_args(args)
    /\ config' = create_config(args, file_config)
    /\ pc' = "start"
    /\ UNCHANGED <<args, file_config, disk, path_idx, errors, any_would_change, json_out,
                   input, lines, stats, blocks, bi, iteration,
                   total_revisions, total_skipped, loop_exit, would_change, exit_code,
                   stdout, pass, first_run>>

\* Tab expansion with tab_width = 0 meets a tab: the process panics
ExpandTabsPanic ==
    /\ pc = "start"
    /\ config.all_blocks \/ quick_scan_for_diagrams(input).likely_has_diagrams
    /\ ExpandTabsPanics(input, config)
    /\ pc' = "panicked"
    /\ UNCHANGED <<args, file_config, disk, path_idx, errors, any_would_change, json_out,
                   input, config, lines, stats, blocks, bi, iteration,
                   total_revisions, total_skipped, loop_exit, would_change, exit_code,
                   stdout, pass, first_run>>

\* ------------------------------------------------------------------------
\* correct_lines
\* ------------------------------------------------------------------------
\* The "for block in blocks" loop from index k on: the blocks outside the line
\* ranges are skipped (counted) until a block to correct or the end is found
RECURSIVE SkipBlocks(_, _, _, _)
SkipBlocks(found, k, cfg, st) ==
    IF k > Len(found) THEN [bi |-> k, stats |-> st]
    ELSE IF cfg.lines # None /\ ~block_overlaps_ranges(found[k], cfg.lines[1])
         THEN SkipBlocks(found, k + 1, cfg,
                         [st EXCEPT !.blocks_skipped = st.blocks_skipped + 1])
         ELSE [bi |-> k, stats |-> st]

\* Control reaches the next block to correct (correct_block starts) or the
\* return of correct_lines
NextBlock(found, k, st) ==
    LET nxt == SkipBlocks(found, k, config, st)
    IN  /\ bi' = nxt.bi
        /\ stats' = nxt.stats
        /\ iteration' = 0
        /\ total_revisions' = 0
        /\ total_skipped' = 0
        /\ pc' = IF nxt.bi > Len(found) THEN "done" ELSE "loop"

\* Quick scan finds no diagram: the lines are returned as given
Passthrough ==
    /\ pc = "start"
    /\ ~config.all_blocks
    /\ ~quick_scan_for_diagrams(input).likely_has_diagrams
    /\ stats' = ZeroStats(Len(input))
    /\ pc' = "done"
    /\ UNCHANGED <<args, file_config, disk, path_idx, errors, any_would_change, json_out,
                   input, config, lines, blocks, bi, iteration, total_revisions,
                   total_skipped, loop_exit, would_change, exit_code, stdout, pass,
                   first_run>>

\* Tab expansion and block detection
Prepare ==
    /\ pc = "start"
    /\ config.all_blocks \/ quick_scan_for_diagrams(input).likely_has_diagrams
    /\ ~ExpandTabsPanics(input, config)
    /\ LET expanded == ExpandAll(input, config.tab_width)
           found == find_diagram_blocks(expanded, config.all_blocks)
       IN  /\ lines' = expanded
           /\ blocks' = found
           /\ NextBlock(found, 1,
                        [ZeroStats(Len(input)) EXCEPT !.blocks_found = Len(found)])
    /\ UNCHANGED <<args, file_config, disk, path_idx, errors, any_would_change, json_out,
                   input, config, loop_exit, would_change, exit_code, stdout, pass,
                   first_run>>

\* ------------------------------------------------------------------------
\* correct_block, one loop iteration per step
\* ------------------------------------------------------------------------
\* correct_block returns to correct_lines, which accumulates the statistics
FinishBlock(reason, skipped) ==
    /\ loop_exit' = [reason |-> reason, block |-> bi, iterations |-> iteration]
    /\ NextBlock(blocks, bi + 1,
                 [stats EXCEPT
                    !.blocks_modified = @ + (IF total_revisions > 0 THEN 1 ELSE 0),
                    !.total_revisions = @ + (IF total_revisions > 0 THEN total_revisions ELSE 0),
                    !.revisions_skipped = @ + skipped])
    /\ UNCHANGED <<args, file_config, disk, path_idx, errors, any_would_change, json_out,
                   input, config, lines, blocks, would_change, exit_code, stdout, pass,
                   first_run>>

\* for iteration in 0..max_iters: the range is used up
LoopExhausted ==
    /\ pc = "loop"
    /\ ~(iteration < config.max_iters)
    /\ FinishBlock("exhausted", total_skipped)

\* No line of the block has a suffix border: break
NoTarget ==
    /\ pc = "loop"
    /\ iteration < config.max_iters
    /\ TargetColumn(AnalyzeBlock(lines, blocks[bi])) = None
    /\ FinishBlock("no_target", total_skipped)

\* The candidates of an iteration and those that pass the score filter
Candidates(document, block, border_char) ==
    LET analyzed == AnalyzeBlock(document, block)
    IN  GenerateRevisions(analyzed, block, TargetColumn(analyzed)[1], border_char)

Valid(document, block, border_char, cfg) ==
    ValidRevisions(Candidates(document, block, border_char),
                   AnalyzeBlock(document, block), block, cfg)

BlockLines(document, block) == SubSeq(document, block.start + 1, block.end)

\* No candidate passes the score filter: break
Converged ==
    /\ pc = "loop"
    /\ iteration < config.max_iters
    /\ TargetColumn(AnalyzeBlock(lines, blocks[bi])) # None
    /\ \E border_char \in detect_vertical_border(BlockLines(lines, blocks[bi])) :
        LET revisions == Candidates(lines, blocks[bi], border_char)
            valid_revisions == Valid(lines, blocks[bi], border_char, config)
        IN  /\ valid_revisions = <<>>
            /\ FinishBlock("converged", total_skipped + Len(revisions))

\* The valid revisions are applied and the loop goes on
ApplyRevisions ==
    /\ pc = "loop"
    /\ iteration < config.max_iters
    /\ TargetColumn(AnalyzeBlock(lines, blocks[bi])) # None
    /\ \E border_char \in detect_vertical_border(BlockLines(lines, blocks[bi])) :
        LET revisions == Candidates(lines, blocks[bi], border_char)
            valid_revisions == Valid(lines, blocks[bi], border_char, config)
        IN  /\ valid_revisions # <<>>
            /\ lines' = ApplyAll(valid_revisions, lines)
            /\ total_skipped' = total_skipped + (Len(revisions) - Len(valid_revisions))
            /\ total_revisions' = total_revisions + Len(valid_revisions)
            /\ iteration' = iteration + 1
    /\ UNCHANGED <<args, file_config, disk, path_idx, errors, any_would_change, json_out,
                   input, config, pc, stats, blocks, bi, loop_exit, would_change,
                   exit_code, stdout, pass, first_run>>

\* ------------------------------------------------------------------------
\* process_input, output_single_result and main
\* ------------------------------------------------------------------------
Output ==
    /\ pc = "done"
    /\ LET changed == WouldChange(input, lines)
       IN  /\ would_change' = changed
           /\ stdout' = IF config.dry_run THEN <<>> ELSE WriteLines(lines)
           /\ exit_code' = ExitCode(config.dry_run, changed)
    /\ pc' = "exited"
    /\ UNCHANGED <<args, file_config, disk, path_idx, errors, any_would_change, json_out,
                   input, config, lines, stats, blocks, bi, iteration, total_revisions,
                   total_skipped, loop_exit, pass, first_run>>

\* The program is run again, with the same configuration, on its own output
Reprocess ==
    /\ pc = "exited"
    /\ pass = 1
    /\ pass' = 2
    /\ first_run' = [input |-> input, output |-> lines, loop_exit |-> loop_exit]
    /\ input' = lines
    /\ pc' = "start"
    /\ stats' = ZeroStats(0)
    /\ blocks' = <<>>
    /\ bi' = 0
    /\ iteration' = 0
    /\ total_revisions' = 0
    /\ total_skipped' = 0
    /\ loop_exit' = NoExit
    /\ would_change' = FALSE
    /\ exit_code' = -1
    /\ stdout' = <<>>
    /\ UNCHANGED <<args, file_config, disk, path_idx, errors, any_would_change, json_out,
                   config, lines>>

\* One run of the program
Next ==
    \/ Passthrough
    \/ Prepare
    \/ LoopExhausted
    \/ NoTarget
    \/ Converged
    \/ ApplyRevisions
    \/ Output

Spec == Init /\ [][Next]_vars

\* One run of the program on a long document
SpecScan == InitScan /\ [][Next]_vars

\* One run of the program from its command line
NextStartup ==
    \/ InvalidArgs
    \/ Configure
    \/ ExpandTabsPanic
    \/ Next

SpecStartup == InitStartup /\ [][NextStartup]_vars

\* One run of the program with a line-range filter
SpecRanges == InitRanges /\ [][Next]_vars

\* A run followed by a run on its output
NextTwice == Next \/ Reprocess

SpecTwice == Init /\ [][NextTwice]_vars

\* ------------------------------------------------------------------------
\* Block detection on its own
\* ------------------------------------------------------------------------
MaxBlockLines == 6

\* One line of each LineKind: "+------+" Strong, "|aaaaa" Weak, "" Blank, "a" None
BlockLineSpace ==
    { <<PLUS, DASH, DASH, DASH, DASH, DASH, DASH, PLUS>>,
      <<PIPE, LATIN_A, LATIN_A, LATIN_A, LATIN_A, LATIN_A>>,
      <<>>,
      <<LATIN_A>> }

BlockDocSpace == UNION {[1..n -> BlockLineSpace] : n \in 0..MaxBlockLines}

BlockConfigSpace ==
    [max_iters : {DEFAULT_MAX_ITERS}, min_score : {DEFAULT_MIN_SCORE}, preset : {"none"},
     tab_width : {DEFAULT_TAB_WIDTH}, all_blocks : BOOLEAN, lines : {None},
     dry_run : {FALSE}]

InitBlocks ==
    /\ input \in BlockDocSpace
    /\ config \in BlockConfigSpace
    /\ pc = "detect"
    /\ lines = input
    /\ stats = ZeroStats(0)
    /\ blocks = <<>>
    /\ bi = 0
    /\ iteration = 0
    /\ total_revisions = 0
    /\ total_skipped = 0
    /\ loop_exit = NoExit
    /\ would_change = FALSE
    /\ exit_code = -1
    /\ stdout = <<>>
    /\ pass = 1
    /\ first_run = [input |-> <<>>, output |-> <<>>, loop_exit |-> NoExit]
    /\ args = NoArgs
    /\ file_config = None
    /\ NoFiles

\* find_diagram_blocks applied to the lines
FindBlocks ==
    /\ pc = "detect"
    /\ blocks' = find_diagram_blocks(lines, config.all_blocks)
    /\ pc' = "detected"
    /\ UNCHANGED <<args, file_config, disk, path_idx, errors, any_would_change, json_out,
                   input, config, lines, stats, bi, iteration,
                   total_revisions, total_skipped, loop_exit, would_change, exit_code,
                   stdout, pass, first_run>>

NextBlocks == FindBlocks

SpecBlocks == InitBlocks /\ [][NextBlocks]_vars

\* ------------------------------------------------------------------------
\* Line-range parsing on its own
\* ------------------------------------------------------------------------
MaxSpecLen == 4

\* The characters of a --lines value: '0' '1' '2' '-' ',' ' ' 'a'
SpecChars == {DIGIT_ZERO, DIGIT_ZERO + 1, DIGIT_ZERO + 2, DASH, COMMA, SPACE, LATIN_A}

SpecStrings == UNION {[1..n -> SpecChars] : n \in 0..MaxSpecLen}

\* The command line with every option at its default
DefaultArgs ==
    [min_score |-> DEFAULT_MIN_SCORE, min_score_given |-> FALSE, preset |-> "none",
     max_iters |-> DEFAULT_MAX_ITERS, max_iters_given |-> FALSE,
     tab_width |-> DEFAULT_TAB_WIDTH, tab_width_given |-> FALSE,
     all |-> FALSE, dry_run |-> FALSE, no_config |-> TRUE, given |-> TRUE, lines |-> None]

InitParse ==
    /\ args \in {[DefaultArgs EXCEPT !.lines = Some(s)] : s \in SpecStrings}
    /\ file_config = None
    /\ input = <<>>
    /\ config = config_from(DefaultArgs)
    /\ pc = "parse"
    /\ lines = input
    /\ stats = ZeroStats(0)
    /\ blocks = <<>>
    /\ bi = 0
    /\ iteration = 0
    /\ total_revisions = 0
    /\ total_skipped = 0
    /\ loop_exit = NoExit
    /\ would_change = FALSE
    /\ exit_code = -1
    /\ stdout = <<>>
    /\ pass = 1
    /\ first_run = [input |-> <<>>, output |-> <<>>, loop_exit |-> NoExit]
    /\ NoFiles

\* Config::from(&args): parse_line_ranges applied to the --lines value
ParseLines ==
    /\ pc = "parse"
    /\ config' = config_from(args)
    /\ pc' = "parsed"
    /\ UNCHANGED <<args, file_config, disk, path_idx, errors, any_would_change, json_out,
                   input, lines, stats, blocks, bi, iteration,
                   total_revisions, total_skipped, loop_exit, would_change, exit_code,
                   stdout, pass, first_run>>

NextParse == ParseLines

SpecParse == InitParse /\ [][NextParse]_vars

\* ------------------------------------------------------------------------
\* Runs over files, written in place
\* ------------------------------------------------------------------------
ERROR == 1

PARSE_ERROR == 4

MaxFiles == 2

\* An error of the anyhow chain, by the type exit_code_for_error looks for
IoError == [ok |-> FALSE, kind |-> "io"]

ParseError == [ok |-> FALSE, kind |-> "parse"]

exit_code_for_error(err) ==
    IF err.kind = "arg" THEN INVALID_ARGS
    ELSE IF err.kind = "parse" THEN PARSE_ERROR
    ELSE ERROR

\* str::lines: the text split at its line feeds, a final line feed ending the
\* last line (the texts of the model hold no carriage return)
RECURSIVE StrLines(_)
StrLines(text) ==
    IF text = <<>> THEN <<>>
    ELSE IF \A i \in 1..Len(text) : text[i] # NEWLINE THEN <<text>>
    ELSE <<SubSeq(text, 1, SetMin({i \in 1..Len(text) : text[i] = NEWLINE}) - 1)>>
         \o StrLines(SubSeq(text, SetMin({i \in 1..Len(text) : text[i] = NEWLINE}) + 1,
                            Len(text)))

\* read_file on a file of the disk: fs::metadata or fs::read fails, the bytes
\* hold a NUL or are not UTF-8, or the lines of the text are returned
read_file(file) ==
    IF file.fault = "metadata" THEN IoError
    ELSE IF file.fault = "binary" THEN ParseError
    ELSE Ok(StrLines(file.text))

\* The text of an in-place write: corrected.join("\n"), and a line feed
\* pushed when the text is not empty
PushNewline(output) == IF output # <<>> THEN output \o <<NEWLINE>> ELSE output

InPlaceText(corrected) == PushNewline(Join(corrected))

\* output_json_single: corrected_text, written as it is
JsonInPlaceText(corrected) == Join(corrected)

\* create_backup: fs::copy of the file
BackedUp(d, i, backup) ==
    IF backup THEN [d EXCEPT ![i].backup = Some(d[i].text)] ELSE d

\* The backup, when asked for, and fs::write; an error of either ends the step
StoreInPlace(d, i, text, backup) ==
    IF backup /\ d[i].fault = "backup" THEN [ok |-> FALSE, disk |-> d]
    ELSE IF d[i].fault = "write" THEN [ok |-> FALSE, disk |-> BackedUp(d, i, backup)]
    ELSE [ok |-> TRUE,
          disk |-> [BackedUp(d, i, backup) EXCEPT ![i].text = text, ![i].written = TRUE]]

\* The in-place branch of the output: output_json_single under --json
StoreResult(d, i, corrected, cfg) ==
    StoreInPlace(d, i,
                 IF cfg.json THEN JsonInPlaceText(corrected) ELSE InPlaceText(corrected),
                 cfg.backup)

\* println! of the JsonOutput under --json (content is None with --in-place)
PrintJson(printed, i, changed, cfg) ==
    IF cfg.json
    THEN Append(printed, [file |-> i, changed |-> changed, content |-> None])
    ELSE printed

\* "", "\n", "+------+\na-|\n", "+--\n", "a", "+--+\n|a |\n"
FileTexts ==
    { <<>>,
      <<NEWLINE>>,
      <<PLUS, DASH, DASH, DASH, DASH, DASH, DASH, PLUS, NEWLINE, LATIN_A, DASH, PIPE, NEWLINE>>,
      <<PLUS, DASH, DASH, NEWLINE>>,
      <<LATIN_A>>,
      <<PLUS, DASH, DASH, PLUS, NEWLINE, PIPE, LATIN_A, SPACE, PIPE, NEWLINE>> }

\* What goes wrong with a file: nothing, fs::metadata, binary content,
\* fs::copy to the backup path, fs::write
FileFaults == {"none", "metadata", "binary", "backup", "write"}

FileSpace == [text : FileTexts, fault : FileFaults, backup : {None}, written : {FALSE}]

DiskSpace == UNION {[1..n -> FileSpace] : n \in 0..MaxFiles}

FilesConfigSpace ==
    [max_iters : {1}, min_score : {DEFAULT_MIN_SCORE}, preset : {"none"},
     tab_width : {DEFAULT_TAB_WIDTH}, all_blocks : {FALSE}, lines : {None},
     dry_run : {FALSE}, json : BOOLEAN, backup : BOOLEAN, recursive : BOOLEAN]

\* run: "aadc --in-place PATH..."; without --recursive at least one path is given
InitFiles ==
    /\ args = [given |-> FALSE, in_place |-> TRUE]
    /\ file_config = None
    /\ disk \in DiskSpace
    /\ config \in FilesConfigSpace
    /\ config.recursive \/ disk # <<>>
    /\ path_idx = 0
    /\ errors = <<>>
    /\ any_would_change = FALSE
    /\ json_out = <<>>
    /\ input = <<>>
    /\ pc = "run"
    /\ lines = <<>>
    /\ stats = ZeroStats(0)
    /\ blocks = <<>>
    /\ bi = 0
    /\ iteration = 0
    /\ total_revisions = 0
    /\ total_skipped = 0
    /\ loop_exit = NoExit
    /\ would_change = FALSE
    /\ exit_code = -1
    /\ stdout = <<>>
    /\ pass = 1
    /\ first_run = [input |-> <<>>, output |-> <<>>, loop_exit |-> NoExit]

\* run: output_multiple_results is called in recursive mode and for several inputs
MultiMode == config.recursive \/ Len(disk) > 1

\* process_input is entered with the lines read from path i
StartFile(i, read) ==
    /\ path_idx' = i
    /\ input' = read
    /\ lines' = read
    /\ stats' = ZeroStats(0)
    /\ blocks' = <<>>
    /\ bi' = 0
    /\ iteration' = 0
    /\ total_revisions' = 0
    /\ total_skipped' = 0
    /\ loop_exit' = NoExit
    /\ would_change' = FALSE
    /\ pc' = "start"

\* run, recursive mode: no file matched
NoFilesMatched ==
    /\ pc = "run"
    /\ config.recursive
    /\ disk = <<>>
    /\ exit_code' = ExitCode(config.dry_run, FALSE)
    /\ pc' = "exited"
    /\ UNCHANGED <<args, file_config, disk, path_idx, errors, any_would_change, json_out,
                   input, config, lines, stats, blocks, bi, iteration, total_revisions,
                   total_skipped, loop_exit, would_change, stdout, pass, first_run>>

\* run, single file mode: read_file(path)?
ReadSingle ==
    /\ pc = "run"
    /\ ~MultiMode
    /\ read_file(disk[1]).ok
    /\ StartFile(1, read_file(disk[1]).value)
    /\ UNCHANGED <<args, file_config, disk, errors, any_would_change, json_out, config,
                   exit_code, stdout, pass, first_run>>

\* run, single file mode: read_file fails and main exits with the error's code
ReadSingleFails ==
    /\ pc = "run"
    /\ ~MultiMode
    /\ ~read_file(disk[1]).ok
    /\ exit_code' = exit_code_for_error(read_file(disk[1]))
    /\ pc' = "exited"
    /\ UNCHANGED <<args, file_config, disk, path_idx, errors, any_would_change, json_out,
                   input, config, lines, stats, blocks, bi, iteration, total_revisions,
                   total_skipped, loop_exit, would_change, stdout, pass, first_run>>

\* output_single_result with --in-place, and the exit of main
OutputSingle ==
    /\ pc = "done"
    /\ ~MultiMode
    /\ args.in_place
    /\ would_change' = WouldChange(input, lines)
    /\ json_out' = PrintJson(json_out, 1, WouldChange(input, lines), config)
    /\ disk' = StoreResult(disk, 1, lines, config).disk
    /\ exit_code' = IF StoreResult(disk, 1, lines, config).ok
                    THEN ExitCode(config.dry_run, WouldChange(input, lines))
                    ELSE exit_code_for_error(IoError)
    /\ pc' = "exited"
    /\ UNCHANGED <<args, file_config, path_idx, errors, any_would_change, input, config,
                   lines, stats, blocks, bi, iteration, total_revisions, total_skipped,
                   loop_exit, stdout, pass, first_run>>

\* output_multiple_results: read_file(path) is Ok, process_input starts
ReadFile ==
    /\ pc = "run"
    /\ MultiMode
    /\ path_idx < Len(disk)
    /\ read_file(disk[path_idx + 1]).ok
    /\ StartFile(path_idx + 1, read_file(disk[path_idx + 1]).value)
    /\ UNCHANGED <<args, file_config, disk, errors, any_would_change, json_out, config,
                   exit_code, stdout, pass, first_run>>

\* output_multiple_results: read_file(path) is Err, the error is kept
ReadFileFails ==
    /\ pc = "run"
    /\ MultiMode
    /\ path_idx < Len(disk)
    /\ ~read_file(disk[path_idx + 1]).ok
    /\ errors' = Append(errors, [path |-> path_idx + 1,
                                 kind |-> read_file(disk[path_idx + 1]).kind])
    /\ path_idx' = path_idx + 1
    /\ UNCHANGED <<args, file_config, disk, any_would_change, json_out, input, config, pc,
                   lines, stats, blocks, bi, iteration, total_revisions, total_skipped,
                   loop_exit, would_change, exit_code, stdout, pass, first_run>>

\* output_multiple_results with --in-place: the output of one file; an error
\* of the backup or of the write leaves the function through "?"
OutputFile ==
    /\ pc = "done"
    /\ MultiMode
    /\ args.in_place
    /\ would_change' = WouldChange(input, lines)
    /\ any_would_change' = (any_would_change \/ WouldChange(input, lines))
    /\ json_out' = PrintJson(json_out, path_idx, WouldChange(input, lines), config)
    /\ disk' = StoreResult(disk, path_idx, lines, config).disk
    /\ IF StoreResult(disk, path_idx, lines, config).ok
       THEN pc' = "run" /\ exit_code' = exit_code
       ELSE pc' = "exited" /\ exit_code' = exit_code_for_error(IoError)
    /\ UNCHANGED <<args, file_config, path_idx, errors, input, config, lines, stats,
                   blocks, bi, iteration, total_revisions, total_skipped, loop_exit,
                   stdout, pass, first_run>>

\* output_multiple_results after the loop: the errors kept are reported as one
Report ==
    /\ pc = "run"
    /\ MultiMode
    /\ disk # <<>>
    /\ path_idx = Len(disk)
    /\ exit_code' = IF errors = <<>> THEN ExitCode(config.dry_run, any_would_change)
                    ELSE IF \E k \in 1..Len(errors) : errors[k].kind = "parse"
                         THEN exit_code_for_error(ParseError)
                         ELSE exit_code_for_error(IoError)
    /\ pc' = "exited"
    /\ UNCHANGED <<args, file_config, disk, path_idx, errors, any_would_change, json_out,
                   input, config, lines, stats, blocks, bi, iteration, total_revisions,
                   total_skipped, loop_exit, would_change, stdout, pass, first_run>>

\* A run over files written in place
NextFiles ==
    \/ NoFilesMatched
    \/ ReadSingle
    \/ ReadSingleFails
    \/ OutputSingle
    \/ ReadFile
    \/ ReadFileFails
    \/ OutputFile
    \/ Report
    \/ Passthrough
    \/ Prepare
    \/ LoopExhausted
    \/ NoTarget
    \/ Converged
    \/ ApplyRevisions

SpecFiles == InitFiles /\ [][NextFiles]_vars

\* ------------------------------------------------------------------------
\* Tab expansion on its own
\* ------------------------------------------------------------------------
MaxTabLen == 4

\* The characters of a line: tab, 'a', '|' and the wide U+4E16
TabChars == {TAB, LATIN_A, PIPE, CJK_SHI}

TabLineSpace == UNION {[1..n -> TabChars] : n \in 0..MaxTabLen}

\* Tab widths that validate_args accepts
TabWidthSpace == {1, 2, 3, DEFAULT_TAB_WIDTH, 8, MAX_TAB_WIDTH}

InitTabs ==
    /\ args = NoArgs
    /\ file_config = None
    /\ input \in {<<line>> : line \in TabLineSpace}
    /\ config \in {[config_from(DefaultArgs) EXCEPT !.tab_width = w] : w \in TabWidthSpace}
    /\ pc = "expand"
    /\ lines = input
    /\ stats = ZeroStats(1)
    /\ blocks = <<>>
    /\ bi = 0
    /\ iteration = 0
    /\ total_revisions = 0
    /\ total_skipped = 0
    /\ loop_exit = NoExit
    /\ would_change = FALSE
    /\ exit_code = -1
    /\ stdout = <<>>
    /\ pass = 1
    /\ first_run = [input |-> <<>>, output |-> <<>>, loop_exit |-> NoExit]
    /\ NoFiles

\* correct_lines: every line goes through expand_tabs
ExpandTabs ==
    /\ pc = "expand"
    /\ lines' = ExpandAll(input, config.tab_width)
    /\ pc' = "expanded"
    /\ UNCHANGED <<args, file_config, disk, path_idx, errors, any_would_change, json_out,
                   input, config, stats, blocks, bi, iteration,
                   total_revisions, total_skipped, loop_exit, would_change, exit_code,
                   stdout, pass, first_run>>

NextTabs == ExpandTabs

SpecTabs == InitTabs /\ [][NextTabs]_vars

\* ------------------------------------------------------------------------
\* Vocabulary of the properties
\* ------------------------------------------------------------------------
\* correct_lines has returned
Finished == pc \in {"done", "exited"}

\* The quick-scan gate as the documentation states it: all_blocks is off and
\* fewer than 1% of the first min(1000, n) lines hold a box character
GateCloses(document, cfg) ==
    LET n == Min(Len(document), 1000)
        hits == Cardinality({i \in 1..n :
                    \E j \in 1..Len(document[i]) : is_box_char(document[i][j])})
    IN  ~cfg.all_blocks /\ (n = 0 \/ hits * 100 < n)

\* Line i of the input as correct_block first sees it
Expanded(i) == expand_tabs(input[i], config.tab_width)

RECURSIVE IsSubsequence(_, _)
IsSubsequence(a, b) ==
    IF a = <<>> THEN TRUE
    ELSE IF b = <<>> THEN FALSE
    ELSE IF Head(a) = Head(b) THEN IsSubsequence(Tail(a), Tail(b))
    ELSE IsSubsequence(a, Tail(b))

NotSpace(c) == c # SPACE

\* A line without its U+0020 characters
NonSpace(s) == SelectSeq(s, NotSpace)

IsPrefix(a, b) == Len(a) <= Len(b) /\ SubSeq(b, 1, Len(a)) = a

\* The lines of the input that lie in a block that correct_block was run on
InCorrectedBlock(i) ==
    \E k \in 1..Len(blocks) :
        /\ blocks[k].start < i /\ i <= blocks[k].end
        /\ (config.lines = None \/ block_overlaps_ranges(blocks[k], config.lines[1]))

\* ------------------------------------------------------------------------
\* C1  Monotonicity
\* ------------------------------------------------------------------------
\* C1: when correct_lines has returned, every output line contains the
\* corresponding (tab-expanded) input line as a subsequence: no correction
\* step removes a character, trailing whitespace included.
C1_Monotonicity ==
    Finished /\ ~GateCloses(input, config) =>
        \A i \in 1..Len(input) : IsSubsequence(Expanded(i), lines[i])

\* ------------------------------------------------------------------------
\* C6  Width consistency
\* ------------------------------------------------------------------------
\* C6: when correct_lines has returned, no output line is visually narrower
\* than the corresponding input line.
C6_WidthConsistency ==
    Finished => \A i \in 1..Len(input) : visual_width(lines[i]) >= visual_width(input[i])

\* ------------------------------------------------------------------------
\* C2  Idempotence
\* ------------------------------------------------------------------------
\* C2: a run on the output of a run, with the same configuration, returns
\* that output unchanged, for every configuration (max_iters >= 1).
C2_Idempotence ==
    pass = 2 /\ Finished => lines = first_run.output

\* C2 (amended): the same, for every configuration with max_iters >= 2.
C2_IdempotenceFromTwoIters ==
    pass = 2 /\ Finished /\ config.max_iters >= 2 => lines = first_run.output

\* The first run used up a budget of two iterations, both applying revisions,
\* and the second run is over
C2_Witness ==
    /\ pass = 2 /\ Finished
    /\ config.max_iters = 2
    /\ first_run.loop_exit.reason = "exhausted"
    /\ first_run.output # first_run.input
    /\ lines = first_run.output

\* ------------------------------------------------------------------------
\* C3  Convergence
\* ------------------------------------------------------------------------
\* The block correct_block was last run on
LastBlock == blocks[loop_exit.block]

\* C3: with max_iters >= (lines of the block) + 1, correct_block leaves its
\* loop through a break (no target or no valid revision), never by using up
\* the budget, and the block is then a fixed point: a further iteration
\* would find no valid revision.  So the budget yields what an unbounded
\* budget yields.
C3_Convergence ==
    loop_exit.reason # "none"
    /\ config.max_iters >= (LastBlock.end - LastBlock.start) + 1 =>
        /\ loop_exit.reason # "exhausted"
        /\ loop_exit.iterations < config.max_iters
        /\ LET analyzed == AnalyzeBlock(lines, LastBlock)
           IN  \/ TargetColumn(analyzed) = None
               \/ \A border_char \in detect_vertical_border(BlockLines(lines, LastBlock)) :
                    Valid(lines, LastBlock, border_char, config) = <<>>

\* A block whose budget is exactly its line count + 1 converged after two
\* iterations that applied revisions
C3_Witness ==
    /\ loop_exit.reason = "converged"
    /\ loop_exit.iterations = 2
    /\ config.max_iters = (LastBlock.end - LastBlock.start) + 1

\* ------------------------------------------------------------------------
\* C4  Alignment
\* ------------------------------------------------------------------------
\* The suffix-border columns of the lines of a block in a document
BorderColumns(document, block) ==
    {analyze_line(document[i]).suffix_border[1].column :
        i \in {j \in (block.start + 1)..block.end :
                    analyze_line(document[j]).suffix_border # None}}

CorrectedBlocks ==
    {k \in 1..Len(blocks) :
        config.lines = None \/ block_overlaps_ranges(blocks[k], config.lines[1])}

\* C4: in the output, in every corrected block, every line with a suffix
\* border has it at the maximum suffix-border column of the block, unless the
\* line had no suffix border in the input and its AddSuffixBorder revision
\* scored below min_score.
C4_Alignment ==
    Finished /\ ~GateCloses(input, config) =>
        \A k \in CorrectedBlocks :
            \A i \in (blocks[k].start + 1)..blocks[k].end :
                LET now == analyze_line(lines[i])
                    was == analyze_line(Expanded(i))
                IN  now.suffix_border # None =>
                        \/ now.suffix_border[1].column = SetMax(BorderColumns(lines, blocks[k]))
                        \/ /\ was.suffix_border = None
                           /\ 5 + (IF was.kind = "Strong" THEN 2 ELSE 1)
                                < effective_min_score(config)

\* C4 (amended): in the output of a run with max_iters >= 2, in every
\* corrected block, every line with a suffix border has it at the maximum
\* suffix-border column of the block, unless the PadBeforeSuffixBorder
\* revision that would move it there scores below min_score.
C4_AlignmentUpToScore ==
    Finished /\ ~GateCloses(input, config) /\ config.max_iters >= 2 =>
        \A k \in CorrectedBlocks :
            \A i \in (blocks[k].start + 1)..blocks[k].end :
                LET now == analyze_line(lines[i])
                    top == SetMax(BorderColumns(lines, blocks[k]))
                IN  now.suffix_border # None =>
                        \/ now.suffix_border[1].column = top
                        \/ /\ now.suffix_border[1].column < top
                           /\ 8 - Min(top - now.suffix_border[1].column, 5)
                                + (IF now.kind = "Strong" THEN 2 ELSE 0)
                                < effective_min_score(config)

\* A corrected block of three bordered lines, all moved to one column by
\* revisions, next to the case of a line left behind by its score
C4_Witness ==
    /\ Finished /\ ~GateCloses(input, config) /\ config.max_iters >= 2
    /\ \E k \in CorrectedBlocks :
        /\ blocks[k].end - blocks[k].start = 3
        /\ \A i \in (blocks[k].start + 1)..blocks[k].end :
                analyze_line(lines[i]).suffix_border # None
        /\ Cardinality(BorderColumns(lines, blocks[k])) = 1
        /\ stats.total_revisions >= 3

\* ------------------------------------------------------------------------
\* C5  Prose preservation
\* ------------------------------------------------------------------------
IsProse(line) == classify_line(line) \in {"None", "Blank"}

\* C5: every line classified None or Blank is, in the output, identical to
\* its tab-expanded input.
C5_ProsePreservation ==
    Finished => \A i \in 1..Len(input) : IsProse(input[i]) => lines[i] = Expanded(i)

\* C5 (amended): every line classified None or Blank is identical to its
\* tab-expanded input from tab expansion on when the document is processed,
\* and to its raw input when the quick-scan gate passes the document
\* through; no revision is generated for such a line.
C5_ProsePreservationOrRaw ==
    /\ pc # "start" =>
        \A i \in 1..Len(input) :
            IsProse(input[i]) =>
                lines[i] = IF GateCloses(input, config) THEN input[i] ELSE Expanded(i)
    /\ pc = "loop" /\ TargetColumn(AnalyzeBlock(lines, blocks[bi])) # None =>
        \A border_char \in detect_vertical_border(BlockLines(lines, blocks[bi])) :
            LET revisions == Candidates(lines, blocks[bi], border_char)
            IN  \A r \in 1..Len(revisions) : ~IsProse(input[revisions[r].line_idx + 1])

\* A line with a tab classified None lies inside a corrected block that got
\* revisions
C5_Witness ==
    /\ Finished
    /\ stats.total_revisions > 0
    /\ \E i \in 1..Len(input) :
        /\ classify_line(input[i]) = "None"
        /\ InCorrectedBlock(i)
        /\ lines[i] # input[i]

\* ------------------------------------------------------------------------
\* C7  Insert spaces only
\* ------------------------------------------------------------------------
\* What correct_lines starts from: the raw line when the gate passes the
\* document through, the tab-expanded line otherwise
Baseline(i) == IF GateCloses(input, config) THEN input[i] ELSE Expanded(i)

\* C7: the output differs from the input only by inserted U+0020 characters:
\* without its spaces, every output line is the input line without its spaces.
C7_InsertSpacesOnly ==
    Finished => \A i \in 1..Len(input) : NonSpace(lines[i]) = NonSpace(Baseline(i))

\* C7 (amended): correction introduces no character other than U+0020 and,
\* at the end of a boxy line that had no suffix border, one vertical-border
\* character.
C7_SpacesAndOneBorder ==
    Finished =>
        \A i \in 1..Len(input) :
            LET kept == NonSpace(TrimEnd(Baseline(i)))
                was == analyze_line(Baseline(i))
            IN  \/ lines[i] = Baseline(i)
                \/ NonSpace(lines[i]) = kept
                \/ /\ is_boxy(was.kind) /\ was.suffix_border = None
                   /\ \E c \in {PIPE, LIGHT_VERTICAL} :
                        /\ is_vertical_border(c)
                        /\ NonSpace(lines[i]) = kept \o <<c>>

\* A line got a border character appended and spaces inserted
C7_Witness ==
    /\ Finished
    /\ \E i \in 1..Len(input) :
        /\ Len(NonSpace(lines[i])) = Len(NonSpace(Baseline(i))) + 1
        /\ Len(lines[i]) > Len(Baseline(i)) + 1

\* ------------------------------------------------------------------------
\* C8  Line count
\* ------------------------------------------------------------------------
NotWhitespace(c) == ~IsWhitespace(c)

\* The non-whitespace characters of a line
Content(s) == SelectSeq(s, NotWhitespace)

\* C8: from its first step on correct_lines holds as many lines as it was
\* given, line i holding the content of input line i (followed by what
\* correction appended), and stats.total_lines is that count.
C8_LineCount ==
    pc # "start" =>
        /\ Len(lines) = Len(input)
        /\ stats.total_lines = Len(input)
        /\ \A i \in 1..Len(input) :
            i <= Len(lines) /\ IsPrefix(Content(input[i]), Content(lines[i]))

\* Three lines, one of them empty, went through a correction with revisions
C8_Witness ==
    /\ Finished
    /\ Len(input) = 3 /\ Len(lines) = 3
    /\ \E i \in 1..Len(input) : input[i] = <<>>
    /\ stats.total_revisions >= 2

\* ------------------------------------------------------------------------
\* C9  Dry-run exit code
\* ------------------------------------------------------------------------
\* C9: a dry run exits with 3 iff the corrected lines differ from the input
\* and with 0 iff they do not, and writes none of the lines.
C9_DryRunExitCode ==
    pc = "exited" /\ config.dry_run =>
        /\ exit_code = 3 <=> lines # input
        /\ exit_code = 0 <=> lines = input
        /\ stdout = <<>>

\* A dry run whose only change is an expanded tab ended with exit code 3
C9_Witness ==
    /\ pc = "exited" /\ config.dry_run
    /\ exit_code = 3
    /\ stats.total_revisions = 0
    /\ lines # input

\* ------------------------------------------------------------------------
\* C10  Quick-scan gate
\* ------------------------------------------------------------------------
\* The lines of a document that hold a tab
TabLines(document) ==
    {i \in 1..Len(document) : \E j \in 1..Len(document[i]) : document[i][j] = TAB}

\* The lines among the first min(1000, n) that hold a box character
ScanHits(document) ==
    {i \in 1..Min(Len(document), 1000) :
        \E j \in 1..Len(document[i]) : is_box_char(document[i][j])}

\* C10: once correct_lines is past the quick scan: if all_blocks is off and
\* fewer than 1% of the first min(1000, n) lines hold a box character (an empty
\* document included), the lines are the input lines as given (tabs kept), no
\* block is found and no revision is applied or skipped; otherwise (a ratio of
\* exactly 1% or more, or all_blocks on) the tabs are expanded and the blocks
\* are those that block detection finds in the tab-expanded input.
C10_QuickScanGate ==
    pc # "start" =>
        IF GateCloses(input, config)
        THEN /\ lines = input
             /\ blocks = <<>>
             /\ stats.blocks_found = 0
             /\ stats.blocks_modified = 0
             /\ stats.total_revisions = 0
             /\ stats.revisions_skipped = 0
        ELSE /\ TabLines(lines) = {}
             /\ blocks = find_diagram_blocks(ExpandAll(input, config.tab_width),
                                             config.all_blocks)
             /\ stats.blocks_found = Len(blocks)

\* A document of 101 lines, one of them with a box character (just under 1%):
\* the gate closed and the lines came out with their tabs
C10_Witness ==
    /\ pc = "exited"
    /\ ~config.all_blocks
    /\ Len(input) = 101
    /\ Cardinality(ScanHits(input)) = 1
    /\ TabLines(input) # {}
    /\ lines = input
    /\ stats.blocks_found = 0
\* ------------------------------------------------------------------------
\* C11  Line-range filter
\* ------------------------------------------------------------------------
\* Block k overlaps a configured range, as the documentation states it
InRanges(k) ==
    \E r \in 1..Len(config.lines[1]) :
        /\ blocks[k].start + 1 <= config.lines[1][r].end
        /\ blocks[k].end >= config.lines[1][r].start

\* The blocks the loop of correct_lines has dealt with
BlocksPassed == IF pc = "loop" THEN bi - 1 ELSE Len(blocks)

C11_Counts ==
    pc # "start" /\ config.lines # None =>
        /\ pc = "loop" => InRanges(bi)
        /\ stats.blocks_skipped = Cardinality({k \in 1..BlocksPassed : ~InRanges(k)})
        /\ stats.blocks_modified <= Cardinality({k \in 1..BlocksPassed : InRanges(k)})
        /\ stats.blocks_modified + stats.blocks_skipped <= stats.blocks_found
        /\ \A k \in 1..Len(blocks) :
                ~InRanges(k) =>
                    \A i \in (blocks[k].start + 1)..blocks[k].end : lines[i] = Expanded(i)
        /\ (\A k \in 1..Len(blocks) : ~InRanges(k)) =>
                stats.total_revisions = 0 /\ stats.revisions_skipped = 0

C11_Visit ==
    config.lines # None /\ pc \in {"start", "loop"} =>
        LET later == {k \in (bi + 1)..Len(blocks') : InRanges(k)'}
        IN  /\ (pc' = "loop" /\ (pc = "start" \/ bi' # bi)) =>
                    later # {} /\ bi' = SetMin(later)
            /\ pc' = "done" => later = {}

\* C11: with a range set configured, correct_block is run on a detected block
\* iff block.start + 1 <= r.end and block.end >= r.start for some range r (the
\* loop goes from each such block to the next one, and ends when none is
\* left); every other detected block is counted once in blocks_skipped, never
\* in blocks_modified, contributes no revision, and its lines stay equal to
\* the tab-expanded input; blocks_modified + blocks_skipped <= blocks_found.
C11_LineRangeFilter == []C11_Counts /\ [][C11_Visit]_vars

\* Of two detected blocks, one lies outside the ranges and was skipped although
\* a revision for it is valid, the other was corrected and modified
C11_Witness ==
    /\ Finished /\ config.lines # None
    /\ Len(blocks) = 2
    /\ stats.blocks_skipped = 1 /\ stats.blocks_modified = 1
    /\ \E k \in 1..2 :
        /\ ~InRanges(k)
        /\ TargetColumn(AnalyzeBlock(lines, blocks[k])) # None
        /\ \E border_char \in detect_vertical_border(BlockLines(lines, blocks[k])) :
                Valid(lines, blocks[k], border_char, config) # <<>>
\* ------------------------------------------------------------------------
\* C12  Malformed line-range spec
\* ------------------------------------------------------------------------
\* --lines was given with a spec that parse_line_ranges rejects
MalformedLines == args.given /\ args.lines # None /\ ~parse_line_ranges(args.lines[1]).ok

\* C12: a run whose --lines spec is malformed never reaches correct_lines: it
\* ends with exit code 2 (ArgumentError) and no line is corrected or written.
C12_MalformedLinesRejected ==
    MalformedLines =>
        /\ pc \in {"args", "exited"}
        /\ pc = "exited" => exit_code = INVALID_ARGS
        /\ stdout = <<>>
\* ------------------------------------------------------------------------
\* C13  Config validity
\* ------------------------------------------------------------------------
\* C13: whenever a run from the command line has entered correct_lines, the
\* effective Config has min_score in [0, 1], max_iters >= 1 and tab_width in
\* [1, 16], whether the values came from the command line, the config file or
\* the defaults; in particular expand_tabs is never called with tab_width = 0.
C13_ConfigValidity ==
    args.given /\ pc \in {"start", "loop", "done", "panicked"} =>
        /\ 0 <= config.min_score /\ config.min_score <= 10
        /\ config.max_iters >= 1
        /\ 1 <= config.tab_width /\ config.tab_width <= MAX_TAB_WIDTH
        /\ pc # "panicked"
\* ------------------------------------------------------------------------
\* C14  Config precedence
\* ------------------------------------------------------------------------
\* The run has passed create_config
Configured == args.given /\ pc \in {"start", "loop", "done", "panicked"}

\* The config file that create_config reads: none under --no-config
FileValue(key) ==
    IF args.no_config \/ file_config = None THEN None ELSE file_config[1][key]

\* command line first, then config file, then built-in default
Precedence(given, cli, file, default) ==
    IF given THEN cli ELSE IF file # None THEN file[1] ELSE default

\* C14: for every option the effective Config uses the command-line value
\* whenever the option was given on the command line (even a value equal to the
\* built-in default, and --min-score even against a preset of the file), the
\* config-file value only when the option was not given, and the default only
\* when neither gave it.
C14_ConfigPrecedence ==
    Configured =>
        /\ config.max_iters =
               Precedence(args.max_iters_given, args.max_iters, FileValue("max_iters"),
                          DEFAULT_MAX_ITERS)
        /\ config.tab_width =
               Precedence(args.tab_width_given, args.tab_width, FileValue("tab_width"),
                          DEFAULT_TAB_WIDTH)
        /\ args.min_score_given => effective_min_score(config) = args.min_score
        /\ args.preset # "none" => config.preset = args.preset
\* ------------------------------------------------------------------------
\* C15  Border-character choice
\* ------------------------------------------------------------------------
\* The characters of the block in reading order
RECURSIVE BlockText(_)
BlockText(block_lines) ==
    IF block_lines = <<>> THEN <<>>
    ELSE Head(block_lines) \o BlockText(Tail(block_lines))

FirstIndex(text, c) == SetMin({j \in 1..Len(text) : text[j] = c})

\* Of the characters tied, the one that occurs first in the text
FirstOccurring(text, tied) ==
    IF Cardinality(tied) = 1 THEN CHOOSE c \in tied : TRUE
    ELSE CHOOSE c \in tied : \A d \in tied : FirstIndex(text, c) <= FirstIndex(text, d)

\* An iteration of the correction loop is about to generate its candidates
Generating ==
    /\ pc = "loop"
    /\ iteration < config.max_iters
    /\ TargetColumn(AnalyzeBlock(lines, blocks[bi])) # None

AddedBorders(revisions) ==
    {revisions[k].border_char :
        k \in {j \in 1..Len(revisions) : revisions[j].type = "AddSuffixBorder"}}

\* C15: the border_char of every AddSuffixBorder revision of a block is the
\* vertical-border code point with the highest count in the block's lines, on
\* a tie the one that occurs first in the block, and '|' when the block has no
\* vertical border; so one block has one possible choice on every run.
C15_BorderChoice ==
    Generating =>
        \A border_char \in detect_vertical_border(BlockLines(lines, blocks[bi])) :
            AddedBorders(Candidates(lines, blocks[bi], border_char))
                \subseteq {FirstOccurring(BlockText(BlockLines(lines, blocks[bi])),
                                          detect_vertical_border(BlockLines(lines, blocks[bi])))}
\* ------------------------------------------------------------------------
\* C16  Blocks are well formed, ordered and disjoint
\* ------------------------------------------------------------------------
WellFormedBlocks(found, line_count) ==
    /\ \A k \in 1..Len(found) :
            0 <= found[k].start /\ found[k].start < found[k].end /\ found[k].end <= line_count
    /\ \A k \in 1..(Len(found) - 1) : found[k].end <= found[k + 1].start

\* C16: the blocks find_diagram_blocks returns satisfy
\* 0 <= start < end <= line count, are in ascending order and do not overlap
\* (each block's end <= the next block's start), for both values of all_blocks.
C16_BlocksOrderedDisjoint ==
    pc = "detected" => WellFormedBlocks(blocks, Len(lines))

\* Two blocks were found
C16_Witness == pc = "detected" /\ Len(blocks) >= 2 /\ ~config.all_blocks
\* ------------------------------------------------------------------------
\* C17  Line-range parsing
\* ------------------------------------------------------------------------
\* A positive or non-positive integer written in ASCII digits
IsInteger(token) ==
    token # <<>> /\ \A i \in 1..Len(token) : token[i] \in DIGIT_ZERO..DIGIT_NINE

\* The form of an item with one dash, from the tokens on its two sides
FormAround(a, b) ==
    IF IsInteger(a) /\ IsInteger(b) THEN "A-B"
    ELSE IF a = <<>> /\ IsInteger(b) THEN "-B"
    ELSE IF IsInteger(a) /\ b = <<>> THEN "A-"
    ELSE "none"

OnlyDash(item) == CHOOSE i \in DashPositions(item) : TRUE

BeforeDash(item) == SubSeq(item, 1, OnlyDash(item) - 1)

AfterDash(item) == SubSeq(item, OnlyDash(item) + 1, Len(item))

\* Which of the four documented forms an item has
ItemForm(item) ==
    IF DashPositions(item) = {} THEN (IF IsInteger(item) THEN "A" ELSE "none")
    ELSE IF Cardinality(DashPositions(item)) > 1 THEN "none"
    ELSE FormAround(BeforeDash(item), AfterDash(item))

\* The range the documentation gives to an item of one of the four forms
ItemRange(item) ==
    CASE ItemForm(item) = "A" -> LineRange(DigitsValue(item), DigitsValue(item))
      [] ItemForm(item) = "A-B" ->
            LineRange(DigitsValue(BeforeDash(item)), DigitsValue(AfterDash(item)))
      [] ItemForm(item) = "-B" -> LineRange(1, DigitsValue(AfterDash(item)))
      [] ItemForm(item) = "A-" -> LineRange(DigitsValue(BeforeDash(item)), USIZE_MAX)

\* Positive integers only, and no finite end below the start
RangeAllowed(range) ==
    /\ range.start >= 1 /\ range.end >= 1
    /\ range.end = USIZE_MAX \/ range.start <= range.end

ItemAllowed(item) == ItemForm(item) # "none" /\ RangeAllowed(ItemRange(item))

\* The items of a spec: the parts between the commas, trimmed, the empty ones left out
Items(spec) == KeptParts(SplitCommas(spec))

SpecAllowed(items) == items # <<>> /\ \A i \in 1..Len(items) : ItemAllowed(items[i])

ItemRanges(items) == [i \in 1..Len(items) |-> ItemRange(items[i])]

InSomeRange(n, ranges) ==
    \E k \in 1..Len(ranges) : ranges[k].start <= n /\ n <= ranges[k].end

\* The line numbers at which membership in a range set can change
Points(ranges) ==
    UNION {{ranges[k].start, ranges[k].end, Max(ranges[k].start - 1, 1),
            SaturatingSucc(ranges[k].end)} : k \in 1..Len(ranges)}

\* Two range sets select the same lines
SameLines(a, b) ==
    \A n \in Points(a) \cup Points(b) : InSomeRange(n, a) = InSomeRange(n, b)

ParsedAs(result, items) ==
    IF SpecAllowed(items)
    THEN /\ result # None
         /\ SameLines(result[1], ItemRanges(items))
         /\ Len(items) = 1 => result[1] = ItemRanges(items)
    ELSE result = None

\* C17: parse_line_ranges maps item A-B to [A,B], -B to [1,B], A- to
\* [A, unbounded] and A to [A,A], and returns an error for an empty spec, for an
\* item with a non-positive integer, for an item with a finite end smaller than
\* its start, and for an item that is not of one of the four forms or holds a
\* non-integer token.
C17_LineRangeParsing ==
    pc = "parsed" => ParsedAs(config.lines, Items(args.lines[1]))
\* ------------------------------------------------------------------------
\* C18  In-place output
\* ------------------------------------------------------------------------
\* The file of the path last taken has been written by this run
LastWritten ==
    /\ pc \in {"run", "exited"}
    /\ path_idx >= 1
    /\ disk[path_idx].written

\* C18: an in-place write of a corrected document whose text is not empty
\* writes the corrected lines joined by \n and exactly one terminating \n, in
\* single-file, multi-file and recursive mode, with or without --json; an
\* empty document is written as zero bytes.
C18_InPlaceTrailingNewline ==
    LastWritten =>
        disk[path_idx].text =
            (IF Join(lines) = <<>> THEN <<>> ELSE Join(lines) \o <<NEWLINE>>)

\* ------------------------------------------------------------------------
\* C19  Multi-file error isolation
\* ------------------------------------------------------------------------
\* File i cannot be read, backed up or written
FileFails(i) ==
    \/ disk[i].fault \in {"metadata", "binary", "write"}
    \/ disk[i].fault = "backup" /\ config.backup

\* C19: in a run over several files a failure on one file is fatal for that
\* file only: when the run ends every path has been taken, every file without
\* a failure has been written, and the exit code is 4 if a file had a parse
\* error, 1 if files failed otherwise, 0 if none failed.
C19_ErrorIsolation ==
    pc = "exited" /\ MultiMode /\ disk # <<>> =>
        /\ path_idx = Len(disk)
        /\ \A i \in 1..Len(disk) : disk[i].written = ~FileFails(i)
        /\ exit_code =
              (IF \A i \in 1..Len(disk) : ~FileFails(i) THEN SUCCESS
               ELSE IF \E i \in 1..Len(disk) : disk[i].fault = "binary" THEN PARSE_ERROR
               ELSE ERROR)
\* ------------------------------------------------------------------------
\* C20  Blank-gap rule
\* ------------------------------------------------------------------------
\* The kind of the line with 0-based index j
KindAt(j) == classify_line(lines[j + 1])

InBlock(j, block) == block.start <= j /\ j < block.end

\* A blank line that directly follows a line of the block, other than a blank
\* one, and is directly followed by a boxy line
SingleBlankAt(j, block) ==
    /\ InBlock(j - 1, block)
    /\ KindAt(j - 1) # "Blank"
    /\ KindAt(j) = "Blank"
    /\ j + 1 < Len(lines)
    /\ is_boxy(KindAt(j + 1))

BlankGapRule(block) ==
    /\ \A j \in 1..(Len(lines) - 1) : SingleBlankAt(j, block) => InBlock(j + 1, block)
    /\ \A j \in block.start..(block.end - 2) : ~(KindAt(j) = "Blank" /\ KindAt(j + 1) = "Blank")
    /\ KindAt(block.end - 1) # "Blank"

\* C20: in every block found, a single Blank line that follows a line of the
\* block and is directly followed by a boxy line lies in the block together
\* with that boxy line (diagrams one blank line apart form one block); no block
\* holds two consecutive Blank lines (diagrams two or more blank lines apart
\* lie in different blocks, and with all_blocks every boxy line lies in a
\* block); no block ends in a Blank line.
C20_BlankGapRule ==
    pc = "detected" =>
        /\ \A k \in 1..Len(blocks) : BlankGapRule(blocks[k])
        /\ config.all_blocks =>
              \A j \in 0..(Len(lines) - 1) :
                  is_boxy(KindAt(j)) => \E k \in 1..Len(blocks) : InBlock(j, blocks[k])

\* One block goes across a single blank line and a second block lies two
\* blank lines further on
C20_Witness ==
    /\ pc = "detected"
    /\ Len(blocks) = 2
    /\ \E j \in 1..(Len(lines) - 1) : SingleBlankAt(j, blocks[1])
    /\ KindAt(blocks[1].end) = "Blank" /\ KindAt(blocks[1].end + 1) = "Blank"
\* ------------------------------------------------------------------------
\* C21  None-line lookahead
\* ------------------------------------------------------------------------
\* The growth of the block reaches the None line j with blank_gap = 0: the
\* line before it lies in the block and is not Blank
NoneReached(j, block) ==
    /\ KindAt(j) = "None"
    /\ InBlock(j - 1, block)
    /\ KindAt(j - 1) # "Blank"

\* One of the three lines that follow line j is boxy
BoxyWithinThree(j) ==
    \E k \in (j + 1)..Min(j + 3, Len(lines) - 1) : is_boxy(KindAt(k))

\* C21: while a block is growing and the current line is None, the line is
\* included in the block iff blank_gap = 0 and at least one of the three lines
\* that follow it is boxy; so two diagrams separated by exactly three None
\* lines form one block.
C21_NoneLookahead ==
    pc = "detected" =>
        \A k \in 1..Len(blocks) :
            /\ \A j \in 1..(Len(lines) - 1) :
                  NoneReached(j, blocks[k]) => (InBlock(j, blocks[k]) <=> BoxyWithinThree(j))
            /\ \A j \in 1..(Len(lines) - 1) :
                  InBlock(j, blocks[k]) /\ KindAt(j) = "None" => KindAt(j - 1) # "Blank"
\* ------------------------------------------------------------------------
\* C22  Block emission
\* ------------------------------------------------------------------------
CountKind(block, kind) ==
    Cardinality({j \in block.start..(block.end - 1) : KindAt(j) = kind})

\* The fractions a and b are equal
SameFraction(a, b) == a.num * b.den = b.num * a.den

\* min(1.0, 0.8 * strong / (strong + weak) + min(0.2, size / 10)) in tenths
\* of strong + weak
StatedConfidence(strong, weak, size) ==
    [num |-> Min(10 * (strong + weak), 8 * strong + (strong + weak) * Min(2, size)),
     den |-> 10 * (strong + weak)]

StatedConfidenceOf(block) ==
    StatedConfidence(CountKind(block, "Strong"), CountKind(block, "Weak"),
                     block.end - block.start)

AtLeastThreeTenths(block) ==
    10 * StatedConfidenceOf(block).num >= 3 * StatedConfidenceOf(block).den

\* C22: the confidence of every block reported is
\* min(1.0, 0.8*strong/(strong+weak) + min(0.2, (end-start)/10)) over the lines
\* of the trimmed range and lies in [0,1]; without all_blocks the blocks
\* reported are exactly those of the run with all_blocks whose confidence is
\* >= 0.3, so the blocks reported with all_blocks are a superset.
C22_BlockEmission ==
    pc = "detected" =>
        /\ \A k \in 1..Len(blocks) :
              /\ SameFraction(blocks[k].confidence, StatedConfidenceOf(blocks[k]))
              /\ 0 <= blocks[k].confidence.num
              /\ blocks[k].confidence.num <= blocks[k].confidence.den
        /\ blocks = (IF config.all_blocks THEN find_diagram_blocks(lines, TRUE)
                     ELSE SelectSeq(find_diagram_blocks(lines, TRUE), AtLeastThreeTenths))

\* Without all_blocks one candidate is reported and another is not
C22_Witness ==
    /\ pc = "detected"
    /\ ~config.all_blocks
    /\ Len(blocks) >= 1
    /\ Len(find_diagram_blocks(lines, TRUE)) > Len(blocks)
    /\ \E k \in 1..Len(blocks) : CountKind(blocks[k], "Weak") > 0
\* ------------------------------------------------------------------------
\* C23  Score filter
\* ------------------------------------------------------------------------
\* The documented scores, in tenths
StatedPresetScore(preset) ==
    CASE preset = "Strict" -> 8
      [] preset = "Normal" -> 5
      [] preset = "Aggressive" -> 3
      [] preset = "Relaxed" -> 1

StatedMinScore(cfg) ==
    IF cfg.preset # "none" THEN StatedPresetScore(cfg.preset) ELSE cfg.min_score

StrongBonus(rev, document, strong, other) ==
    IF classify_line(document[rev.line_idx + 1]) = "Strong" THEN strong ELSE other

StatedScore(rev, document) ==
    IF rev.type = "PadBeforeSuffixBorder"
    THEN 8 - Min(5, rev.spaces_to_add) + StrongBonus(rev, document, 2, 0)
    ELSE 5 + StrongBonus(rev, document, 2, 1)

\* The candidates whose documented score reaches the documented threshold
Accepted(revisions, document, cfg) ==
    LET passes(r) == StatedScore(r, document) >= StatedMinScore(cfg)
    IN  SelectSeq(revisions, passes)

\* The iteration that starts in this state applies exactly the accepted
\* candidates and counts the others as skipped
FilterStep(revisions, accepted) ==
    IF accepted = <<>>
    THEN /\ loop_exit'.reason = "converged"
         /\ lines' = lines
         /\ stats'.revisions_skipped =
                stats.revisions_skipped + total_skipped + Len(revisions)
    ELSE /\ lines' = ApplyAll(accepted, lines)
         /\ iteration' = iteration + 1
         /\ total_revisions' = total_revisions + Len(accepted)
         /\ total_skipped' = total_skipped + (Len(revisions) - Len(accepted))

C23_Step ==
    Generating =>
        \E border_char \in detect_vertical_border(BlockLines(lines, blocks[bi])) :
            FilterStep(Candidates(lines, blocks[bi], border_char),
                       Accepted(Candidates(lines, blocks[bi], border_char), lines, config))

ScoreAsStated(rev) ==
    /\ score(rev, AnalyzeBlock(lines, blocks[bi]), blocks[bi].start) = StatedScore(rev, lines)
    /\ 0 <= StatedScore(rev, lines) /\ StatedScore(rev, lines) <= 10

C23_Scores ==
    /\ \A preset \in {"Strict", "Normal", "Aggressive", "Relaxed"} :
            Preset_min_score(preset) = StatedPresetScore(preset)
    /\ effective_min_score(config) = StatedMinScore(config)
    /\ Generating =>
        \A border_char \in detect_vertical_border(BlockLines(lines, blocks[bi])) :
            \A k \in 1..Len(Candidates(lines, blocks[bi], border_char)) :
                ScoreAsStated(Candidates(lines, blocks[bi], border_char)[k])

TargetOf(document) == TargetColumn(AnalyzeBlock(document, blocks[bi]))

\* A step of the loop of correct_block from one iteration into the next
NextIteration ==
    /\ pc = "loop" /\ pc' = "loop"
    /\ bi' = bi
    /\ iteration' = iteration + 1
    /\ iteration' < config.max_iters

\* A line of the block that had no suffix border has one after the step
BorderAppeared ==
    \E i \in (blocks[bi].start + 1)..blocks[bi].end :
        /\ analyze_line(lines[i]).suffix_border = None
        /\ analyze_line(lines'[i]).suffix_border # None

C24_Step ==
    NextIteration =>
        /\ TargetOf(lines') # None
        /\ TargetOf(lines')[1] >= TargetOf(lines)[1]
        /\ TargetOf(lines')[1] > TargetOf(lines)[1] => BorderAppeared

\* C24: within one run of correct_block the target_column computed at the
\* start of each iteration never decreases from one iteration to the next,
\* and it increases only in an iteration that follows the application of at
\* least one AddSuffixBorder revision.
C24_TargetNonDecreasing == [][C24_Step]_vars

\* The second iteration of a block starts with a larger target_column than
\* the first
C24_Witness ==
    /\ pc = "loop"
    /\ iteration = 1
    /\ iteration < config.max_iters
    /\ TargetOf(lines) # None
    /\ TargetOf(lines)[1] > TargetOf(ExpandAll(input, config.tab_width))[1]
\* ------------------------------------------------------------------------
\* C25  Ranking function
\* ------------------------------------------------------------------------
BorderColumnOf(line) ==
    IF analyze_line(line).suffix_border = None THEN 0
    ELSE analyze_line(line).suffix_border[1].column

\* The sum of the suffix-border columns of the lines of a block
ColumnSum(document, block) ==
    SumSeq([i \in 1..(block.end - block.start) |-> BorderColumnOf(document[block.start + i])])

\* Every revision the iteration starting here applies increases the sum
C25_EachRevision ==
    Generating =>
        \A border_char \in detect_vertical_border(BlockLines(lines, blocks[bi])) :
            \A k \in 1..Len(Valid(lines, blocks[bi], border_char, config)) :
                ColumnSum(apply(Valid(lines, blocks[bi], border_char, config)[k], lines),
                          blocks[bi])
                    > ColumnSum(lines, blocks[bi])

C25_Step ==
    pc = "loop" =>
        /\ \A k \in 1..Len(blocks) : ColumnSum(lines', blocks[k]) >= ColumnSum(lines, blocks[k])
        /\ iteration' = iteration + 1 /\ bi' = bi =>
                ColumnSum(lines', blocks[bi]) > ColumnSum(lines, blocks[bi])

\* C25: every revision applied by correct_block strictly increases the sum,
\* over the lines of the block, of the suffix-border columns (a line without a
\* suffix border contributing nothing); the sum strictly increases in every
\* iteration that applies at least one revision and never decreases.
C25_RankingFunction == []C25_EachRevision /\ [][C25_Step]_vars

\* Two iterations of one block applied revisions
C25_Witness ==
    /\ pc = "loop"
    /\ iteration = 2
    /\ ColumnSum(lines, blocks[bi]) > ColumnSum(ExpandAll(input, config.tab_width), blocks[bi])
\* ------------------------------------------------------------------------
\* C26  Revisions of one iteration are independent
\* ------------------------------------------------------------------------
OnePerLine(revs) ==
    \A a, b \in 1..Len(revs) : a # b => revs[a].line_idx # revs[b].line_idx

AscendingLines(revs) ==
    \A a, b \in 1..Len(revs) : a < b => revs[a].line_idx < revs[b].line_idx

ChangesOnlyItsLine(rev, document) ==
    /\ Len(apply(rev, document)) = Len(document)
    /\ \A i \in 1..Len(document) :
           i # rev.line_idx + 1 => apply(rev, document)[i] = document[i]

Orders(n) == {f \in [1..n -> 1..n] : \A a, b \in 1..n : a # b => f[a] # f[b]}

InOrder(revs, f) == [k \in 1..Len(revs) |-> revs[f[k]]]

AnyOrderSameLines(revs, document) ==
    \A f \in Orders(Len(revs)) :
        ApplyAll(InOrder(revs, f), document) = ApplyAll(revs, document)

IndependentRevisions(revs, document, block) ==
    /\ OnePerLine(revs)
    /\ AscendingLines(revs)
    /\ \A k \in 1..Len(revs) :
           /\ revs[k].line_idx >= block.start
           /\ revs[k].line_idx < block.end
           /\ ChangesOnlyItsLine(revs[k], document)
    /\ AnyOrderSameLines(revs, document)

C26_Iteration ==
    Generating =>
        \A border_char \in detect_vertical_border(BlockLines(lines, blocks[bi])) :
            /\ IndependentRevisions(Candidates(lines, blocks[bi], border_char),
                                    lines, blocks[bi])
            /\ IndependentRevisions(Valid(lines, blocks[bi], border_char, config),
                                    lines, blocks[bi])

\* The lines an iteration leaves are those every order of its revisions gives
C26_Step ==
    pc = "loop" /\ iteration' = iteration + 1 /\ bi' = bi =>
        \E border_char \in detect_vertical_border(BlockLines(lines, blocks[bi])) :
            \A f \in Orders(Len(Valid(lines, blocks[bi], border_char, config))) :
                lines' = ApplyAll(InOrder(Valid(lines, blocks[bi], border_char, config), f),
                                  lines)

\* C26: within one iteration of correct_block over one block there is at most
\* one revision per line index, every revision changes only the line it names,
\* and applying the accepted revisions in any order gives the same lines as
\* applying them in ascending line order, which is the order the code uses.
C26_IndependentRevisions == []C26_Iteration /\ [][C26_Step]_vars

\* An iteration that has applied two revisions, to two different lines
C26_Witness ==
    /\ pc = "loop"
    /\ iteration = 1
    /\ total_revisions = 2
    /\ Cardinality({i \in 1..Len(lines) : lines[i] # ExpandAll(input, config.tab_width)[i]}) = 2
\* ------------------------------------------------------------------------
\* C27  Block boundaries never move
\* ------------------------------------------------------------------------
Ranges(found) == [k \in 1..Len(found) |-> <<found[k].start, found[k].end>>]

\* C27: when correct_lines has finished, the detector with the same
\* configuration reports on the corrected lines exactly the (start, end)
\* ranges it reports on the tab-expanded input.
C27_BlockBoundariesFixed ==
    pc = "done" /\ ~ExpandTabsPanics(input, config) =>
        Ranges(find_diagram_blocks(lines, config.all_blocks))
            = Ranges(find_diagram_blocks(ExpandAll(input, config.tab_width),
                                         config.all_blocks))
\* ------------------------------------------------------------------------
\* C28  Range merging
\* ------------------------------------------------------------------------
\* The ranges parse_single_range gave for the items of the spec, before merging
ParsedItems(spec) == ParseKept(Items(spec)).value

SortedApart(ranges) ==
    \A k \in 1..(Len(ranges) - 1) :
        /\ ranges[k].start < ranges[k + 1].start
        /\ ranges[k].end < ranges[k + 1].start
        /\ ranges[k + 1].start > ranges[k].end + 1

\* C28: the ranges parse_line_ranges returns are sorted by start, pairwise
\* non-overlapping and non-adjacent (each start is larger than the previous end
\* plus one), and select exactly the lines the parsed items select, open-ended
\* items A- included.
C28_RangeMerging ==
    pc = "parsed" /\ config.lines # None =>
        /\ config.lines[1] # <<>>
        /\ SortedApart(config.lines[1])
        /\ SameLines(config.lines[1], ParsedItems(args.lines[1]))

\* Two items given out of order, one open-ended, merged into one range
C28_Witness ==
    /\ pc = "parsed"
    /\ config.lines # None
    /\ Len(ParsedItems(args.lines[1])) = 2
    /\ ParsedItems(args.lines[1])[1].start > ParsedItems(args.lines[1])[2].start
    /\ ParsedItems(args.lines[1])[1].end = USIZE_MAX
    /\ ParsedItems(args.lines[1])[2].end < USIZE_MAX
    /\ Len(config.lines[1]) = 1
\* ------------------------------------------------------------------------
\* C29  Tab expansion
\* ------------------------------------------------------------------------
\* The visual column after the first i characters of the line, as stated: a tab
\* at column c takes tab_width - (c mod tab_width) columns, any other character
\* its char_width
RECURSIVE StatedColumn(_, _, _)
StatedColumn(line, i, tab_width) ==
    IF i = 0 THEN 0
    ELSE IF line[i] = TAB
         THEN StatedColumn(line, i - 1, tab_width)
                + (tab_width - (StatedColumn(line, i - 1, tab_width) % tab_width))
         ELSE StatedColumn(line, i - 1, tab_width) + char_width(line[i])

\* What the i-th character of the line becomes
StatedPiece(line, i, tab_width) ==
    IF line[i] = TAB
    THEN Repeat(SPACE, tab_width - (StatedColumn(line, i - 1, tab_width) % tab_width))
    ELSE <<line[i]>>

RECURSIVE StatedPieces(_, _, _)
StatedPieces(line, i, tab_width) ==
    IF i = 0 THEN <<>>
    ELSE StatedPieces(line, i - 1, tab_width) \o StatedPiece(line, i, tab_width)

\* Every other character stands in the output at the column it is counted at
KeptInPlace(line, out, tab_width) ==
    \A i \in 1..Len(line) :
        line[i] # TAB =>
            /\ Len(StatedPieces(line, i, tab_width)) <= Len(out)
            /\ out[Len(StatedPieces(line, i, tab_width))] = line[i]
            /\ visual_width(SubSeq(out, 1, Len(StatedPieces(line, i, tab_width)) - 1))
                   = StatedColumn(line, i - 1, tab_width)

\* The output column right after the spaces of a tab is a tab stop
TabStopsAfter(line, out, tab_width) ==
    \A i \in 1..Len(line) :
        line[i] = TAB =>
            /\ Len(StatedPieces(line, i, tab_width)) <= Len(out)
            /\ visual_width(SubSeq(out, 1, Len(StatedPieces(line, i, tab_width))))
                   % tab_width = 0
            /\ Len(StatedPiece(line, i, tab_width)) \in 1..tab_width

ExpandedAsStated(line, out, tab_width) ==
    /\ out = StatedPieces(line, Len(line), tab_width)
    /\ \A k \in 1..Len(out) : out[k] # TAB
    /\ KeptInPlace(line, out, tab_width)
    /\ Len(out) >= Len(line)
    /\ visual_width(out) = StatedColumn(line, Len(line), tab_width)
    /\ TabStopsAfter(line, out, tab_width)

\* C29: expand_tabs replaces each tab found at visual column c by exactly
\* tab_width - (c mod tab_width) spaces, c advancing by char_width for any other
\* character and by the inserted spaces for a tab; the other characters are
\* kept in place, the result holds no tab, and the column right after each
\* expanded tab is a multiple of tab_width.
C29_TabExpansion ==
    pc = "expanded" => ExpandedAsStated(input[1], lines[1], config.tab_width)

\* A tab after a wide character, expanded to fewer spaces than the tab width
C29_Witness ==
    /\ pc = "expanded"
    /\ \E i \in 2..Len(input[1]) :
           /\ input[1][i] = TAB
           /\ input[1][i - 1] = CJK_SHI
           /\ Len(StatedPiece(input[1], i, config.tab_width)) < config.tab_width
    /\ \E k \in 1..Len(lines[1]) : lines[1][k] = SPACE
\* ------------------------------------------------------------------------
\* C30  Two-pass fixed point
\* ------------------------------------------------------------------------
NoAddSuffixBorder(revs) ==
    \A k \in 1..Len(revs) : revs[k].type # "AddSuffixBorder"

\* What an iteration after the first, and after the second, can still do
C30_LaterIterations ==
    Generating =>
        \A border_char \in detect_vertical_border(BlockLines(lines, blocks[bi])) :
            /\ iteration >= 1 =>
                   NoAddSuffixBorder(Valid(lines, blocks[bi], border_char, config))
            /\ iteration >= 2 => Valid(lines, blocks[bi], border_char, config) = <<>>

\* From the second iteration on the target column stays, and from the third on
\* the lines stay
C30_Step ==
    pc = "loop" =>
        /\ (NextIteration /\ iteration >= 1) => TargetOf(lines') = TargetOf(lines)
        /\ iteration >= 2 => lines' = lines
        /\ (iteration >= 2 /\ pc' = "loop" /\ bi' = bi) => iteration' = iteration

\* C30: correct_block applies revisions in at most its first two iterations:
\* every AddSuffixBorder that is applied is applied in the first iteration, the
\* target column takes at most two values (that of the first iteration and that
\* of all later ones), and a third iteration finds no revision that passes the
\* score filter, so that the lines after two iterations are the lines after any
\* larger number of iterations.
C30_TwoPassFixedPoint == []C30_LaterIterations /\ [][C30_Step]_vars

\* A third iteration reached after two iterations that applied revisions, the
\* second of them with a larger target column than the first
C30_Witness ==
    /\ pc = "loop"
    /\ iteration = 2
    /\ iteration < config.max_iters
    /\ TargetOf(lines) # None
    /\ TargetOf(lines)[1] > TargetOf(ExpandAll(input, config.tab_width))[1]
    /\ \A border_char \in detect_vertical_border(BlockLines(lines, blocks[bi])) :
           Valid(lines, blocks[bi], border_char, config) = <<>>
====
